---------------------------- MODULE Spec2Model ----------------------------
(***************************************************************************)
(* A model of the path-geometry kernel of nabla: the depth sorter          *)
(* (sortContours and the horizontalOrder* functions it is built on), the   *)
(* angle split of a closed contour, path extrusion and the drawing-command *)
(* adapter (PathBuilderPen in, Path.draw out).                             *)
(*                                                                         *)
(* Coordinates are integers.  The code works on floats; every input of the *)
(* model is chosen so that each value the code computes from it (a         *)
(* midpoint, a split point, a cross product) is an integer, so that the    *)
(* integer arithmetic below is the arithmetic of the code.                 *)
(***************************************************************************)
EXTENDS Integers, Sequences, FiniteSets, TLC

VARIABLES
    pc,             \* position of the running call
    result,         \* what the call returned (empty until it returns)
    \* sortContours(contours, transform)
    contours,       \* the list passed in
    transform,      \* the affine passed in
    deps,           \* the dependency dict
    data,           \* topologicalSort: the dict still to be emitted
    sortedIndices,  \* the batches emitted so far, concatenated
    \* Contour.splitAtAngle(angle)
    method,         \* the method called on self
    self,           \* the contour it is called on
    splitAngle,     \* the angle passed in
    sides,          \* the two lists of groups of segments
    previousSide,   \* the side of the piece handled last (-1 for None)
    segmentIndex,   \* how many segments the loop has handled
    \* extrudePath(path, angle, depth, reverse)
    path,           \* the path passed in
    offset,         \* (dx, dy)
    reverse,        \* the reverse flag
    extruded,       \* the contours appended to the new Path so far
    \* PathBuilderPen fed with an outline, then Path.draw into a recording pen
    outline,        \* the drawing commands to feed
    fed,            \* how many of them the pen has received
    penPath,        \* pen.path.contours
    currentPoint,   \* pen.currentPoint
    drawn,          \* how many contours Path.draw has drawn
    replay,         \* the commands the recording pen has received
    \* controlBounds read between mutations of a Path
    cachedBounds,   \* the boxes cached_property has stored, by object
    receiver,       \* the object controlBounds was read on last
    \* splitCurveAtAngle(curve, angle, bothDirections), with splitAngle
    givenCurve,           \* the four points passed in
    givenBothDirections,  \* the flag passed in
    \* horizontalOrderSegment(segment1, segment2)
    givenSegments,        \* the two segments passed in
    tested,               \* the calls of horizontalOrderRect made, in order
    \* horizontalOrderRect(rect1, rect2)
    givenRects            \* the two boxes passed in

sortVars == <<contours, transform, deps, data, sortedIndices>>
splitVars == <<method, self, splitAngle, sides, previousSide, segmentIndex>>
extrudeVars == <<path, offset, reverse, extruded>>
penVars == <<outline, fed, penPath, currentPoint, drawn, replay>>
boundsVars == <<cachedBounds, receiver>>
argVars == <<givenCurve, givenBothDirections, givenSegments, tested, givenRects>>
vars == <<pc, result, sortVars, splitVars, extrudeVars, penVars, boundsVars, argVars>>

-----------------------------------------------------------------------------
(* Bounds *)

\* longest list of contours handed to sortContours
MaxContours == 3

\* most segments in a generated contour
MaxSegments == 4

\* most contours in a path handed to extrudePath
MaxPathContours == 2

\* most contours in an outline fed to the pen, and most lineTo/curveTo in each
MaxOutlineContours == 2
MaxDrawCommands == 2

\* most calls in an arbitrary sequence of pen calls
MaxCalls == 4

\* most contours in a Path a method is called on
MaxMethodContours == 2

-----------------------------------------------------------------------------
(* Program constants *)

\* horizontalOrderSegment(segment1, segment2, maxRecursionLevel=4)
MaxRecursionLevel == 4

\* One source unit, in model units: half a source unit can be halved once per
\* bisection level (maxRecursionLevel 4 down to 0) without leaving the integers.
Unit == 2 ^ (MaxRecursionLevel + 2)

-----------------------------------------------------------------------------
(* Generic helpers *)

SetMin(S) == CHOOSE m \in S : \A n \in S : m <= n
SetMax(S) == CHOOSE m \in S : \A n \in S : m >= n
Range(seq) == {seq[k] : k \in DOMAIN seq}

\* Python's seq[i] with a 0-based index
At(seq, i) == seq[i + 1]

\* the pairs of a nested "for a in s1: for b in s2:" loop, in loop order
PairSeq(s1, s2) ==
    [k \in 1..(Len(s1) * Len(s2)) |->
        <<s1[((k - 1) \div Len(s2)) + 1], s2[((k - 1) % Len(s2)) + 1]>>]

\* the value a loop "for v in vals: if v: return v" returns, 0 when it falls through
FirstNonZero(vals) ==
    IF \E k \in DOMAIN vals : vals[k] # 0
    THEN vals[SetMin({k \in DOMAIN vals : vals[k] # 0})]
    ELSE 0

\* all sequences over S of length 0..n
SeqsUpTo(S, n) == UNION {[1..m -> S] : m \in 0..n}

-----------------------------------------------------------------------------
(* Geometry primitives, Segment *)

Pt(x, y) == <<x, y>>

Segment(points) == [points |-> points]

Contour(segments, closed) == [segments |-> segments, closed |-> closed]

\* fontTools.misc.arrayTools.calcBounds wrapped in BoundingBox
BoundingBox(points) ==
    [xMin |-> SetMin({points[k][1] : k \in DOMAIN points}),
     yMin |-> SetMin({points[k][2] : k \in DOMAIN points}),
     xMax |-> SetMax({points[k][1] : k \in DOMAIN points}),
     yMax |-> SetMax({points[k][2] : k \in DOMAIN points})]

SegmentControlBounds(segment) == BoundingBox(segment.points)

\* all points of a contour, segment by segment
ContourPoints(contour) ==
    LET RECURSIVE Flat(_)
        Flat(k) == IF k > Len(contour.segments) THEN <<>>
                   ELSE contour.segments[k].points \o Flat(k + 1)
    IN Flat(1)

ContourControlBounds(contour) == BoundingBox(ContourPoints(contour))

\* fontTools Transform as (xx, xy, yx, yy, dx, dy)
TransformPoint(t, p) ==
    Pt(t.xx * p[1] + t.yx * p[2] + t.dx, t.xy * p[1] + t.yy * p[2] + t.dy)

SegmentTransform(segment, t) ==
    Segment([k \in DOMAIN segment.points |-> TransformPoint(t, segment.points[k])])

ContourTransform(contour, t) ==
    Contour([k \in DOMAIN contour.segments |-> SegmentTransform(contour.segments[k], t)],
            contour.closed)

\* calcCubicParameters, one coordinate: the polynomial a t^3 + b t^2 + c t + d
CubicParameters(p1, p2, p3, p4) ==
    [a |-> p4 - p1 - (p3 - p2) * 3,
     b |-> (p3 - p2) * 3 - (p2 - p1) * 3,
     c |-> (p2 - p1) * 3,
     d |-> p1]

\* calcCubicPoints, one coordinate, for parameters given as numerators over D
CubicPoints(a, b, c, d, D) ==
    <<d \div D,
      (c + 3 * d) \div (3 * D),
      (b + 2 * c + 3 * d) \div (3 * D),
      (a + d + c + b) \div D>>

\* _splitCubicAtT(a, b, c, d, t) for t = tn / td, one coordinate: the piece over
\* [0, t] (t1 = 0, delta = t) and the piece over [t, 1] (t1 = t, delta = 1 - t)
SplitCubicParameters(q, tn, td) ==
    <<CubicPoints(q.a * tn * tn * tn,
                  q.b * tn * tn * td,
                  q.c * tn * td * td,
                  q.d * td * td * td,
                  td * td * td),
      CubicPoints(q.a * (td - tn) * (td - tn) * (td - tn),
                  (3 * q.a * tn + q.b * td) * (td - tn) * (td - tn),
                  (2 * q.b * tn * td + q.c * td * td + 3 * q.a * tn * tn) * (td - tn),
                  q.a * tn * tn * tn + q.b * tn * tn * td + q.c * tn * td * td
                      + q.d * td * td * td,
                  td * td * td)>>

\* the two pieces' points from their x and their y coordinates
ZipPieces(xs, ys) ==
    <<[k \in 1..4 |-> Pt(xs[1][k], ys[1][k])],
      [k \in 1..4 |-> Pt(xs[2][k], ys[2][k])]>>

\* splitCubicAtT(pt1, pt2, pt3, pt4, t) for t = tn / td
splitCubicAtT(points, tn, td) ==
    ZipPieces(
        SplitCubicParameters(
            CubicParameters(points[1][1], points[2][1], points[3][1], points[4][1]), tn, td),
        SplitCubicParameters(
            CubicParameters(points[1][2], points[2][2], points[3][2], points[4][2]), tn, td))

\* the two Segments Segment.splitAtT returns
SegmentPair(points1, points2) == <<Segment(points1), Segment(points2)>>

\* Segment.splitAtT of a line: both halves share the interpolated point
SplitLine(p1, p, p2) == SegmentPair(<<p1, p>>, <<p, p2>>)

\* Segment.splitAtT(t) for t = tn / td
splitAtT(segment, tn, td) ==
    IF Len(segment.points) = 2
    THEN SplitLine(segment.points[1],
                   Pt(segment.points[1][1]
                          + (tn * (segment.points[2][1] - segment.points[1][1])) \div td,
                      segment.points[1][2]
                          + (tn * (segment.points[2][2] - segment.points[1][2])) \div td),
                   segment.points[2])
    ELSE SegmentPair(splitCubicAtT(segment.points, tn, td)[1],
                     splitCubicAtT(segment.points, tn, td)[2])

-----------------------------------------------------------------------------
(* Depth sorter: the pairwise verdict *)

rectsOverlapHorizontally(rect1, rect2) ==
    SetMax({rect1.xMin, rect2.xMin}) < SetMin({rect1.xMax, rect2.xMax})

rectsOverlapVertically(rect1, rect2) ==
    SetMax({rect1.yMin, rect2.yMin}) < SetMin({rect1.yMax, rect2.yMax})

rectsOverlap(rect1, rect2) ==
    rectsOverlapVertically(rect1, rect2) /\ rectsOverlapHorizontally(rect1, rect2)

\* horizontalOrderRect with the two verdicts exchanged
horizontalOrderRectSwapped(rect1, rect2) ==
    IF rectsOverlapVertically(rect1, rect2)
    THEN IF rect1.xMax <= rect2.xMin THEN 1
         ELSE IF rect1.xMin >= rect2.xMax THEN -1
         ELSE 0
    ELSE 0

\* horizontalOrderRect whose second branch repeats the first one's verdict
horizontalOrderRectOneVerdict(rect1, rect2) ==
    IF rectsOverlapVertically(rect1, rect2)
    THEN IF rect1.xMax <= rect2.xMin THEN -1
         ELSE IF rect1.xMin >= rect2.xMax THEN -1
         ELSE 0
    ELSE 0

\* horizontalOrderRect that does not look at the vertical overlap
horizontalOrderRectAnyHeight(rect1, rect2) ==
    IF rect1.xMax <= rect2.xMin THEN -1
    ELSE IF rect1.xMin >= rect2.xMax THEN 1
    ELSE 0

horizontalOrderRect(rect1, rect2) ==
    IF rectsOverlapVertically(rect1, rect2)
    THEN IF rect1.xMax <= rect2.xMin THEN -1
         ELSE IF rect1.xMin >= rect2.xMax THEN 1
         ELSE 0
    ELSE 0

\* "if ho: return ho", else go on with the rest of the function
OrElse(ho, rest) == IF ho # 0 THEN ho ELSE rest

\* horizontalOrderRect of the control bounds of each pair of segments
RectVerdicts(pairs) ==
    [k \in DOMAIN pairs |->
        horizontalOrderRect(SegmentControlBounds(pairs[k][1]),
                            SegmentControlBounds(pairs[k][2]))]

\* the pairs appended to overlaps
Overlaps(pairs) ==
    SelectSeq(pairs, LAMBDA pr : rectsOverlap(SegmentControlBounds(pr[1]),
                                              SegmentControlBounds(pr[2])))

RECURSIVE horizontalOrderSegment(_, _, _)
RECURSIVE SegmentVerdicts(_, _)
RECURSIVE HalvesVerdict(_, _)
RECURSIVE SegmentVerdict(_, _, _, _, _)

\* horizontalOrderSegment of each pair of segments
SegmentVerdicts(pairs, maxRecursionLevel) ==
    [k \in DOMAIN pairs |->
        horizontalOrderSegment(pairs[k][1], pairs[k][2], maxRecursionLevel)]

\* horizontalOrderSegment, the two loops over the halves: the first decisive
\* rectangle verdict, else the first decisive verdict one level down
HalvesVerdict(pairs, maxRecursionLevel) ==
    OrElse(FirstNonZero(RectVerdicts(pairs)),
           FirstNonZero(SegmentVerdicts(Overlaps(pairs), maxRecursionLevel - 1)))

\* horizontalOrderSegment once the two control bounds are known
SegmentVerdict(segment1, segment2, bounds1, bounds2, maxRecursionLevel) ==
    OrElse(horizontalOrderRect(bounds1, bounds2),
           IF rectsOverlap(bounds1, bounds2)
           THEN HalvesVerdict(PairSeq(splitAtT(segment1, 1, 2), splitAtT(segment2, 1, 2)),
                              maxRecursionLevel)
           ELSE 0)

horizontalOrderSegment(segment1, segment2, maxRecursionLevel) ==
    IF maxRecursionLevel < 0 THEN 0
    ELSE SegmentVerdict(segment1, segment2, SegmentControlBounds(segment1),
                        SegmentControlBounds(segment2), maxRecursionLevel)

\* horizontalOrderContour once the two control bounds are known
ContourVerdict(contour1, contour2, bounds1, bounds2) ==
    OrElse(horizontalOrderRect(bounds1, bounds2),
           IF rectsOverlap(bounds1, bounds2)
           THEN FirstNonZero(SegmentVerdicts(PairSeq(contour1.segments, contour2.segments),
                                             MaxRecursionLevel))
           ELSE 0)

horizontalOrderContour(contour1, contour2) ==
    ContourVerdict(contour1, contour2, ContourControlBounds(contour1),
                   ContourControlBounds(contour2))

-----------------------------------------------------------------------------
(* Depth sorter: sortContours and topologicalSort *)

\* the (i, j) of "for i ...: for j ... in enumerate(...[i + 1 :], i + 1)"
IndexPairs(n) == {q \in (0..(n - 1)) \X (0..(n - 1)) : q[1] < q[2]}

\* comparisons, first form: the (i, j, ho) triples for i < j
Triples(contoursTransformed) ==
    {<<ij[1], ij[2], horizontalOrderContour(At(contoursTransformed, ij[1]),
                                            At(contoursTransformed, ij[2]))>> :
        ij \in IndexPairs(Len(contoursTransformed))}

\* Comparisons with the rewrite keyed on ho == 1
ComparisonsFlipped(contoursTransformed) ==
    {IF t[3] = 1 THEN <<t[1], t[2]>> ELSE <<t[2], t[1]>> :
        t \in {u \in Triples(contoursTransformed) : u[3] # 0}}

\* comparisons, second form: (i, j) if ho == -1 else (j, i), for the triples with ho # 0
Comparisons(contoursTransformed) ==
    {IF t[3] = -1 THEN <<t[1], t[2]>> ELSE <<t[2], t[1]>> :
        t \in {u \in Triples(contoursTransformed) : u[3] # 0}}

\* deps[i].add(j) for every comparison (i, j); every other index gets set()
Deps(comparisons, n) ==
    [i \in 0..(n - 1) |-> {q[2] : q \in {c \in comparisons : c[1] = i}}]

\* topologicalSort, before the loop: items named only as dependencies become keys
WithExtraItems(d) ==
    LET extra_items_in_deps == UNION {d[item] : item \in DOMAIN d} \ DOMAIN d
    IN [item \in DOMAIN d \cup extra_items_in_deps |->
           IF item \in DOMAIN d THEN d[item] ELSE {}]

\* topologicalSort: the items with no dependency left
Ordered(d) == {item \in DOMAIN d : d[item] = {}}

\* sorted(ordered, reverse=True)
SortedDescending(S) ==
    LET RECURSIVE Desc(_)
        Desc(T) == IF T = {} THEN <<>> ELSE <<SetMax(T)>> \o Desc(T \ {SetMax(T)})
    IN Desc(S)

\* sorted(ordered)
Sorted(S) ==
    LET RECURSIVE Asc(_)
        Asc(T) == IF T = {} THEN <<>> ELSE <<SetMin(T)>> \o Asc(T \ {SetMin(T)})
    IN Asc(S)

\* Remaining that drops the emitted keys but leaves them in the dependency sets
RemainingKeepsDeps(d, ordered) ==
    [item \in DOMAIN d \ ordered |-> d[item]]

\* topologicalSort: the dict after a batch was yielded
Remaining(d, ordered) ==
    [item \in DOMAIN d \ ordered |-> d[item] \ ordered]

\* the variables of the operations that are not running
IdleSort ==
    contours = <<>> /\ transform = <<>> /\ deps = <<>> /\ data = <<>> /\ sortedIndices = <<>>
IdleSplit ==
    /\ method = "" /\ self = <<>> /\ splitAngle = 0
    /\ sides = <<>> /\ previousSide = -1 /\ segmentIndex = 0
IdleExtrude ==
    path = <<>> /\ offset = <<>> /\ reverse = FALSE /\ extruded = <<>>
IdlePen ==
    /\ outline = <<>> /\ fed = 0 /\ penPath = <<>> /\ currentPoint = <<>>
    /\ drawn = 0 /\ replay = <<>>
IdleBounds ==
    cachedBounds = <<>> /\ receiver = <<>>
IdleSegments ==
    givenSegments = <<>> /\ tested = <<>>
IdleArgs ==
    /\ givenCurve = <<>> /\ givenBothDirections = FALSE
    /\ IdleSegments
    /\ givenRects = <<>>

\* sortContours up to the first step of the generator
SortContoursCall ==
    /\ pc = "start"
    /\ IF contours = <<>>
       THEN /\ pc' = "returned"
            /\ result' = contours
            /\ UNCHANGED <<deps, data, sortedIndices>>
       ELSE /\ deps' = Deps(Comparisons([k \in DOMAIN contours |->
                                ContourTransform(contours[k], transform)]),
                        Len(contours))
            /\ data' = WithExtraItems(deps')
            /\ sortedIndices' = <<>>
            /\ pc' = "topo"
            /\ UNCHANGED result
    /\ UNCHANGED <<contours, transform, splitVars, argVars, boundsVars, extrudeVars, penVars>>

\* one turn of topologicalSort's loop that yields a batch
TopologicalSortYield ==
    /\ pc = "topo"
    /\ Ordered(data) # {}
    /\ sortedIndices' = sortedIndices \o Sorted(Ordered(data))
    /\ data' = Remaining(data, Ordered(data))
    /\ UNCHANGED <<pc, contours, transform, deps, result,
                   splitVars, argVars, boundsVars, extrudeVars, penVars>>

\* SortContoursReturn without the length assertion
SortContoursReturnNoAssert ==
    /\ pc = "topo"
    /\ Ordered(data) = {}
    /\ pc' = "returned"
    /\ result' = [k \in DOMAIN sortedIndices |-> At(contours, sortedIndices[k])]
    /\ UNCHANGED <<sortVars, argVars, boundsVars, splitVars, extrudeVars, penVars>>

\* SortContoursReturn that hands out the transformed copies
SortContoursReturnTransformed ==
    /\ pc = "topo"
    /\ Ordered(data) = {}
    /\ IF Len(sortedIndices) = Len(contours)
       THEN /\ pc' = "returned"
            /\ result' = [k \in DOMAIN sortedIndices |->
                             ContourTransform(At(contours, sortedIndices[k]), transform)]
       ELSE /\ pc' = "raised"
            /\ UNCHANGED result
    /\ UNCHANGED <<sortVars, argVars, boundsVars, splitVars, extrudeVars, penVars>>

\* topologicalSort breaks out of its loop; sortContours asserts and returns
SortContoursReturn ==
    /\ pc = "topo"
    /\ Ordered(data) = {}
    /\ IF Len(sortedIndices) = Len(contours)
       THEN /\ pc' = "returned"
            /\ result' = [k \in DOMAIN sortedIndices |-> At(contours, sortedIndices[k])]
       ELSE /\ pc' = "raised"
            /\ UNCHANGED result
    /\ UNCHANGED <<sortVars, argVars, boundsVars, splitVars, extrudeVars, penVars>>

-----------------------------------------------------------------------------
(* The inputs of the depth sorter *)

\* a point given in half source units
HP(x2, y2) == Pt(x2 * (Unit \div 2), y2 * (Unit \div 2))

\* the open or closed polyline through the given points
Polyline(pts, closed) ==
    Contour([k \in 1..(Len(pts) - 1) |-> Segment(<<pts[k], pts[k + 1]>>)], closed)

\* the axis-aligned unit square centred at (cx, 0)
UnitSquare(cx) ==
    Polyline(<<HP(2 * cx - 1, -1), HP(2 * cx - 1, 1), HP(2 * cx + 1, 1),
               HP(2 * cx + 1, -1), HP(2 * cx - 1, -1)>>, TRUE)

LeftSquare == UnitSquare(0)
RightSquare == UnitSquare(5)

\* right of LeftSquare and wholly above it
HighStroke == Polyline(<<HP(4, 6), HP(6, 8)>>, FALSE)

\* three strokes whose verdicts chase each other in a cycle
PinA == Polyline(<<HP(4, 2), HP(2, 0), HP(0, 6)>>, FALSE)
PinB == Polyline(<<HP(2, 8), HP(8, 6), HP(0, 2)>>, FALSE)
PinC == Polyline(<<HP(8, 2), HP(8, 4), HP(0, 0)>>, FALSE)

ContourPool == {LeftSquare, RightSquare, HighStroke, PinA, PinB, PinC}

Identity == [xx |-> 1, xy |-> 0, yx |-> 0, yy |-> 1, dx |-> 0, dy |-> 0]
\* Transform().scale(-1, 1)
MirrorX == [xx |-> -1, xy |-> 0, yx |-> 0, yy |-> 1, dx |-> 0, dy |-> 0]
\* Transform(0, 1, 1, 0, 0, 0)
SwapXY == [xx |-> 0, xy |-> 1, yx |-> 1, yy |-> 0, dx |-> 0, dy |-> 0]

Transforms == {Identity, MirrorX, SwapXY}

InitSort ==
    /\ pc = "start"
    /\ contours \in SeqsUpTo(ContourPool, MaxContours)
    /\ transform \in Transforms
    /\ deps = <<>>
    /\ data = <<>>
    /\ sortedIndices = <<>>
    /\ result = <<>>
    /\ IdleSplit /\ IdleExtrude /\ IdlePen /\ IdleBounds /\ IdleArgs

NextSort ==
    \/ SortContoursCall
    \/ TopologicalSortYield
    \/ SortContoursReturn

SpecSort == InitSort /\ [][NextSort]_vars

\* topologicalSort is a plain sequential loop: once entered, a turn of the loop
\* that can be taken is taken, and so is the return that follows the loop
FairSpecSort == SpecSort /\ WF_vars(TopologicalSortYield \/ SortContoursReturn)

-----------------------------------------------------------------------------
(* Properties of the depth sorter *)

\* the contours as sortContours compares them
ContoursTransformed ==
    [k \in DOMAIN contours |-> ContourTransform(contours[k], transform)]

\* the verdict sortContours computes for the pair (i, j), i < j
Verdict(i, j) ==
    horizontalOrderContour(At(ContoursTransformed, i), At(ContoursTransformed, j))

Indices == 0..(Len(contours) - 1)

\* the pairs of indices with a non-zero verdict, "left" one first
VerdictPairs ==
    {q \in Indices \X Indices :
        \/ q[1] < q[2] /\ Verdict(q[1], q[2]) = -1
        \/ q[2] < q[1] /\ Verdict(q[2], q[1]) = 1}

\* a finite graph has a cycle iff some non-empty set of nodes is closed under
\* "has a successor in the set"
HasCycle ==
    \E S \in SUBSET Indices :
        /\ S # {}
        /\ \A i \in S : \E j \in S : <<i, j>> \in VerdictPairs

\* where index i stands in the emitted order
Pos(i) == CHOOSE k \in DOMAIN sortedIndices : sortedIndices[k] = i

IsPermutation(seq, S) ==
    /\ Len(seq) = Cardinality(S)
    /\ \A i \in S : Cardinality({k \in DOMAIN seq : seq[k] = i}) = 1

Finished == pc \in {"returned", "raised"}

\* C1: with an acyclic verdict graph sortContours returns, and returns the n
\* input contours, every input index exactly once; the empty list comes back empty.
C1_SortIsPermutation ==
    (Finished /\ ~HasCycle) =>
        /\ pc = "returned"
        /\ Len(result) = Len(contours)
        /\ IsPermutation(sortedIndices, Indices)
        /\ result = [k \in DOMAIN sortedIndices |-> At(contours, sortedIndices[k])]
        /\ (contours = <<>> => result = <<>>)

C1_Witness ==
    /\ pc = "returned"
    /\ Len(contours) = 3
    /\ ~HasCycle
    /\ sortedIndices = <<1, 2, 0>>

TwoSquares == contours \in {<<LeftSquare, RightSquare>>, <<RightSquare, LeftSquare>>}

Box(i) == ContourControlBounds(At(ContoursTransformed, i))

\* contour i's horizontal span lies wholly left of contour j's
SpanLeftOf(i, j) == Box(i).xMax < Box(j).xMin

C5_CycleRaises ==
    (pc = "topo" /\ HasCycle) ~> (pc = "raised" /\ result = <<>>)

C5_Witness ==
    /\ pc = "raised"
    /\ HasCycle
    /\ Len(sortedIndices) < Len(contours)

-----------------------------------------------------------------------------
(* Angle-relative curve splitting: splitCurveAtAngle *)

Abs(n) == IF n < 0 THEN -n ELSE n

RECURSIVE GCD(_, _)
GCD(m, n) == IF n = 0 THEN m ELSE GCD(n, m % n)

\* the float n / d, kept as a fraction in lowest terms with a positive denominator
Lowest(n, d, g) ==
    IF d < 0 THEN <<(-n) \div g, (-d) \div g>> ELSE <<n \div g, d \div g>>

Fraction(n, d) == Lowest(n, d, GCD(Abs(n), Abs(d)))

\* math.sqrt, for the perfect squares the inputs of the model lead to
Sqrt(n, upTo) == CHOOSE r \in 0..upTo : r * r <= n /\ n < (r + 1) * (r + 1)

\* the two roots of the quadratic formula
QuadraticRoots(a, b, rDD) ==
    <<Fraction(-b + rDD, 2 * a), Fraction(-b - rDD, 2 * a)>>

\* fontTools.misc.bezierTools.solveQuadratic
solveQuadratic(a, b, c) ==
    IF a = 0
    THEN IF b = 0 THEN <<>> ELSE <<Fraction(-c, b)>>
    ELSE IF b * b - 4 * a * c >= 0
         THEN QuadraticRoots(a, b, Sqrt(b * b - 4 * a * c, Abs(a) + Abs(b) + Abs(c)))
         ELSE <<>>

\* math.cos and math.sin, for the angles the model uses
Cos(angle) == CASE angle = 0 -> 1
Sin(angle) == CASE angle = 0 -> 0

\* Transform().rotate(angle)
Rotate(angle) ==
    [xx |-> Cos(angle), xy |-> Sin(angle), yx |-> -Sin(angle), yy |-> Cos(angle),
     dx |-> 0, dy |-> 0]

\* calcCubicParameters of the transformed curve, for x (axis 1) or y (axis 2)
TransformedParameters(curve, t, axis) ==
    CubicParameters(TransformPoint(t, curve[1])[axis], TransformPoint(t, curve[2])[axis],
                    TransformPoint(t, curve[3])[axis], TransformPoint(t, curve[4])[axis])

\* yRoots: the roots t of the first derivative of y with 0 <= t < 1
YRoots(q) ==
    SelectSeq(solveQuadratic(3 * q.a, 2 * q.b, q.c), LAMBDA t : 0 <= t[1] /\ t[1] < t[2])

\* what splitCurveAtAngle hands back: (curve1, curve2), (curve, None) or the
\* failed assertion "curve too complex"
Unsplit(curve) == [curve1 |-> curve, curve2 |-> <<>>, none2 |-> TRUE, error |-> FALSE]
Pieces(halves) == [curve1 |-> halves[1], curve2 |-> halves[2], none2 |-> FALSE, error |-> FALSE]
TooComplex == [curve1 |-> <<>>, curve2 |-> <<>>, none2 |-> TRUE, error |-> TRUE]

\* splitCurveAtAngle, the branch for a single root t
SplitAtRoot(curve, bothDirections, qx, t) ==
    IF bothDirections
          \/ 3 * qx.a * t[1] * t[1] + 2 * qx.b * t[1] * t[2] + qx.c * t[2] * t[2] > 0
    THEN Pieces(splitCubicAtT(curve, t[1], t[2]))
    ELSE Unsplit(curve)

\* the branches on the number of roots, splitting at the first of two roots
SplitByRootsAtFirst(curve, bothDirections, qx, yRoots) ==
    IF Len(yRoots) = 0 THEN Unsplit(curve)
    ELSE SplitAtRoot(curve, bothDirections, qx, yRoots[1])

\* splitCurveAtAngle, the branches on the number of roots
SplitByRoots(curve, bothDirections, qx, yRoots) ==
    IF Len(yRoots) = 0 THEN Unsplit(curve)
    ELSE IF Len(yRoots) = 1 THEN SplitAtRoot(curve, bothDirections, qx, yRoots[1])
    ELSE TooComplex

splitCurveAtAngle(curve, angle, bothDirections) ==
    SplitByRoots(curve, bothDirections,
                 TransformedParameters(curve, Rotate(-angle), 1),
                 YRoots(TransformedParameters(curve, Rotate(-angle), 2)))

-----------------------------------------------------------------------------
(* Contour.splitAtAngle *)

whichSide(v1, v2) == v1[1] * v2[2] - v1[2] * v2[1]

\* a bool used as a list index
SideFlipped(nonNegative) == IF nonNegative THEN 0 ELSE 1

Side(nonNegative) == IF nonNegative THEN 1 ELSE 0

\* side1: the side of the chord from the first to the second point
Side1(segment, angle) ==
    Side(whichSide(Pt(Cos(angle), Sin(angle)),
                   Pt(segment.points[2][1] - segment.points[1][1],
                      segment.points[2][2] - segment.points[1][2])) >= 0)

\* side2: the side of the chord from the third to the fourth point
Side2(segment, angle) ==
    Side(whichSide(Pt(Cos(angle), Sin(angle)),
                   Pt(segment.points[4][1] - segment.points[3][1],
                      segment.points[4][2] - segment.points[3][2])) >= 0)

\* sides[side][-1].append(segment)
AppendToLast(groups, segment) ==
    [groups EXCEPT ![Len(groups)] = Append(@, segment)]

\* Place that opens a group only on a side that has none
PlaceInLastGroup(sds, previous, side, segment) ==
    [sds EXCEPT ![side + 1] =
        IF @ = <<>> THEN Append(@, <<segment>>) ELSE AppendToLast(@, segment)]

\* if previousSide != side: sides[side].append([]); then sides[side][-1].append(segment)
Place(sds, previous, side, segment) ==
    [sds EXCEPT ![side + 1] =
        IF previous # side THEN Append(@, <<segment>>) ELSE AppendToLast(@, segment)]

\* sides[side].append([]); sides[side][-1].append(segment)
NewGroup(sds, side, segment) ==
    [sds EXCEPT ![side + 1] = Append(@, <<segment>>)]

\* what one turn of the loop leaves behind
Turn(sds, previous, error) == [sides |-> sds, previousSide |-> previous, error |-> error]

\* the turn for a line, or for a cubic whose two sides agree
WholeTurn(sds, previous, segment, side1) ==
    Turn(Place(sds, previous, side1, segment), side1, FALSE)

\* SplitTurn that forgets the second piece
SplitTurnDropsSecond(sds, previous, side1, side2, split) ==
    IF split.error THEN Turn(sds, previous, TRUE)
    ELSE IF split.none2
         THEN Turn(Place(sds, previous, side1, Segment(split.curve1)), side1, FALSE)
         ELSE Turn(Place(sds, previous, side1, Segment(split.curve1)), side2, FALSE)

\* SplitTurn without "side2 = side1" for a cubic that is not split
SplitTurnKeepsSide2(sds, previous, side1, side2, split) ==
    IF split.error THEN Turn(sds, previous, TRUE)
    ELSE IF split.none2
         THEN Turn(Place(sds, previous, side1, Segment(split.curve1)), side2, FALSE)
         ELSE Turn(NewGroup(Place(sds, previous, side1, Segment(split.curve1)),
                            side2, Segment(split.curve2)),
                   side2, FALSE)

\* the turn for a cubic whose two sides differ
SplitTurn(sds, previous, side1, side2, split) ==
    IF split.error THEN Turn(sds, previous, TRUE)
    ELSE IF split.none2
         THEN Turn(Place(sds, previous, side1, Segment(split.curve1)), side1, FALSE)
         ELSE Turn(NewGroup(Place(sds, previous, side1, Segment(split.curve1)),
                            side2, Segment(split.curve2)),
                   side2, FALSE)

CubicTurn(sds, previous, segment, side1, side2, angle) ==
    IF side1 = side2
    THEN WholeTurn(sds, previous, segment, side1)
    ELSE SplitTurn(sds, previous, side1, side2,
                   splitCurveAtAngle(segment.points, angle, TRUE))

\* the body of "for segment in self.segments"
SegmentTurn(sds, previous, segment, angle) ==
    IF Len(segment.points) = 4
    THEN CubicTurn(sds, previous, segment, Side1(segment, angle), Side2(segment, angle),
                   angle)
    ELSE WholeTurn(sds, previous, segment, Side1(segment, angle))

\* math.isclose(a, b, abs_tol=0.00001): the difference is at most the larger of
\* abs_tol and the default rel_tol of 1e-9 times the larger magnitude
isclose(a, b) ==
    \/ Abs(a - b) * 100000 <= Unit
    \/ Abs(a - b) <= (IF Abs(a) > Abs(b) THEN Abs(a) ELSE Abs(b)) \div 1000000000

pointsEqual(pt1, pt2) == isclose(pt1[1], pt2[1]) /\ isclose(pt1[2], pt2[2])

Last(seq) == seq[Len(seq)]

\* MergeWraparound that keeps the last group in place of the first
MergeWraparoundOverwrites(groups) ==
    IF Len(groups) > 1
          /\ pointsEqual(Last(Last(Last(groups)).points), groups[1][1].points[1])
    THEN [k \in 1..(Len(groups) - 1) |-> IF k = 1 THEN Last(groups) ELSE groups[k]]
    ELSE groups

\* MergeWraparound that puts the first group before the last one
MergeWraparoundFirstThenLast(groups) ==
    IF Len(groups) > 1
          /\ pointsEqual(Last(Last(Last(groups)).points), groups[1][1].points[1])
    THEN [k \in 1..(Len(groups) - 1) |->
             IF k = 1 THEN groups[1] \o Last(groups) ELSE groups[k]]
    ELSE groups

\* the wraparound join: sides[0] = sides[-1] + sides[0]; del sides[-1]
MergeWraparound(groups) ==
    IF Len(groups) > 1
          /\ pointsEqual(Last(Last(Last(groups)).points), groups[1][1].points[1])
    THEN [k \in 1..(Len(groups) - 1) |->
             IF k = 1 THEN Last(groups) \o groups[1] ELSE groups[k]]
    ELSE groups

Path(contourList) == [contours |-> contourList]

\* Path(map(Contour, groups))
PathOfGroups(groups) == Path([k \in DOMAIN groups |-> Contour(groups[k], FALSE)])

\* the two assertions, then the set-up of the loop
SplitAtAngleCall ==
    /\ pc = "start"
    /\ IF /\ self.closed
          /\ Len(self.segments) > 0
          /\ self.segments[1].points[1] = Last(Last(self.segments).points)
       THEN /\ pc' = "loop"
            /\ sides' = <<<<>>, <<>>>>
            /\ previousSide' = -1
            /\ segmentIndex' = 0
       ELSE /\ pc' = "raised"
            /\ UNCHANGED <<sides, previousSide, segmentIndex>>
    /\ UNCHANGED <<result, method, self, splitAngle, sortVars, argVars, boundsVars, extrudeVars, penVars>>

\* the state after a turn of the loop
AfterTurn(turn) ==
    IF turn.error
    THEN /\ pc' = "raised"
         /\ UNCHANGED <<sides, previousSide, segmentIndex>>
    ELSE /\ pc' = "loop"
         /\ sides' = turn.sides
         /\ previousSide' = turn.previousSide
         /\ segmentIndex' = segmentIndex + 1

\* one turn of "for segment in self.segments"
SplitAtAngleSegment ==
    /\ pc = "loop"
    /\ segmentIndex < Len(self.segments)
    /\ AfterTurn(SegmentTurn(sides, previousSide, At(self.segments, segmentIndex),
                             splitAngle))
    /\ UNCHANGED <<result, method, self, splitAngle, sortVars, argVars, boundsVars, extrudeVars, penVars>>

\* the wraparound join of each side and the return of the two Paths
SplitAtAngleReturn ==
    /\ pc = "loop"
    /\ segmentIndex = Len(self.segments)
    /\ pc' = "returned"
    /\ result' = <<PathOfGroups(MergeWraparound(sides[1])),
                   PathOfGroups(MergeWraparound(sides[2]))>>
    /\ UNCHANGED <<self, splitVars, sortVars, argVars, boundsVars, extrudeVars, penVars>>

-----------------------------------------------------------------------------
(* The inputs of splitAtAngle *)

\* the end points of the generated segments, in half source units
GridPoints == {HP(x, y) : x \in {0, 1, 2}, y \in {0, 2}}

Line(p, q) == Segment(<<p, q>>)

Cubic(p1, p2, p3, p4) == Segment(<<p1, p2, p3, p4>>)

\* an arch that turns back at t = 1/2, and the same arch hanging down
Arch == Cubic(HP(0, 0), HP(0, 2), HP(2, 2), HP(2, 0))
Bowl == Cubic(HP(0, 2), HP(0, 0), HP(2, 0), HP(2, 2))
\* a rising curve whose two ends are on the same side
Rise == Cubic(HP(0, 0), HP(0, 1), HP(2, 1), HP(2, 2))
\* falls and ends level: the two ends disagree, the only root in reach is t = 1
Landing == Cubic(HP(0, 2), HP(0, 1), HP(1, 0), HP(2, 0))
\* starts level and falls: the only root is t = 0
TakeOff == Cubic(HP(0, 2), HP(1, 2), HP(1, 1), HP(2, 0))
\* starts level, rises and falls back: roots at t = 0 and t = 2/3
Hump == Cubic(HP(0, 0), HP(1, 0), HP(1, 2), HP(2, 0))

SegmentPool ==
    {Line(d[1], d[2]) : d \in {e \in GridPoints \X GridPoints : e[1] # e[2]}}
        \cup {Arch, Bowl, Rise, Landing, TakeOff, Hump}

\* the chains of exactly n segments, each starting where the one before ends
RECURSIVE Chains(_)
Chains(n) ==
    IF n = 1 THEN {<<s>> : s \in SegmentPool}
    ELSE {Append(c[1], c[2]) :
             c \in {d \in Chains(n - 1) \X SegmentPool :
                       d[2].points[1] = Last(Last(d[1]).points)}}

\* the closed contours of 1..n segments: chains that end where they start
ClosedContours(n) ==
    {Contour(c, TRUE) :
        c \in {d \in UNION {Chains(m) : m \in 1..n} :
                  d[1].points[1] = Last(Last(d).points)}}

\* the square (0,0) (0,10) (10,10) (10,0), drawn as four lines and closed
Square10 ==
    Polyline(<<HP(0, 0), HP(0, 20), HP(20, 20), HP(20, 0), HP(0, 0)>>, TRUE)

\* contours splitAtAngle refuses: one not closed, one flagged closed with a gap
OpenStroke == Polyline(<<HP(0, 0), HP(2, 2), HP(0, 0)>>, FALSE)
GapContour == Polyline(<<HP(0, 0), HP(2, 2), HP(2, 0)>>, TRUE)

\* a loop 31250000 source units to the right whose third line ends 1/64 unit
\* beside the starting point
Far == 31250000 * Unit
FarLoop ==
    Contour(<<Line(Pt(Far, 2 * Unit), Pt(Far, 0)),
              Line(Pt(Far, 0), Pt(Far, 4 * Unit)),
              Line(Pt(Far, 4 * Unit), Pt(Far + 1, 2 * Unit)),
              Line(Pt(Far + 1, 2 * Unit), Pt(Far, 2 * Unit))>>, TRUE)

\* Landing followed by a line that keeps falling, and the way back
LandingLoop ==
    Contour(<<Landing, Line(HP(2, 0), HP(2, -2)), Line(HP(2, -2), HP(0, 2))>>, TRUE)

Angles == {0}

InitSplit ==
    /\ pc = "start"
    /\ result = <<>>
    /\ method = "Contour.splitAtAngle"
    /\ self \in ClosedContours(MaxSegments)
                 \cup {Square10, OpenStroke, GapContour, FarLoop, LandingLoop}
    /\ splitAngle \in Angles
    /\ sides = <<>>
    /\ previousSide = -1
    /\ segmentIndex = 0
    /\ IdleSort /\ IdleExtrude /\ IdlePen /\ IdleBounds /\ IdleArgs

NextSplit ==
    \/ SplitAtAngleCall
    \/ SplitAtAngleSegment
    \/ SplitAtAngleReturn

SpecSplit == InitSplit /\ [][NextSplit]_vars

-----------------------------------------------------------------------------
(* Properties of Contour.splitAtAngle *)

SplitReturned == pc = "returned" /\ Len(sides) = 2

\* where the segments of a Path sit: (contour, segment) positions
Positions(p) ==
    UNION {{<<c, k>> : k \in DOMAIN p.contours[c].segments} : c \in DOMAIN p.contours}

SegmentAt(p, pos) == p.contours[pos[1]].segments[pos[2]]

\* how often a segment occurs in a Path
Occurrences(p, segment) ==
    Cardinality({pos \in Positions(p) : SegmentAt(p, pos) = segment})

InPath(p, segment) == Occurrences(p, segment) > 0

\* the cubics the loop cuts in two
IsSplit(segment) ==
    /\ Len(segment.points) = 4
    /\ Side1(segment, splitAngle) # Side2(segment, splitAngle)
    /\ ~splitCurveAtAngle(segment.points, splitAngle, TRUE).none2

FirstPiece(segment) == Segment(splitCurveAtAngle(segment.points, splitAngle, TRUE).curve1)
SecondPiece(segment) == Segment(splitCurveAtAngle(segment.points, splitAngle, TRUE).curve2)

\* the positions of the original segments that are split, and of the others
SplitIndices == {i \in DOMAIN self.segments : IsSplit(self.segments[i])}
WholeIndices == DOMAIN self.segments \ SplitIndices

\* how often a piece is due: as a whole segment, a first piece or a second piece
Due(piece) ==
    Cardinality({i \in WholeIndices : self.segments[i] = piece})
        + Cardinality({i \in SplitIndices : FirstPiece(self.segments[i]) = piece})
        + Cardinality({i \in SplitIndices : SecondPiece(self.segments[i]) = piece})

DuePieces ==
    {self.segments[i] : i \in WholeIndices}
        \cup {FirstPiece(self.segments[i]) : i \in SplitIndices}
        \cup {SecondPiece(self.segments[i]) : i \in SplitIndices}

ReturnedPieces ==
    {SegmentAt(result[1], pos) : pos \in Positions(result[1])}
        \cup {SegmentAt(result[2], pos) : pos \in Positions(result[2])}

\* C6: when splitAtAngle returns, every line and every unsplit cubic of the
\* contour is in the two Paths as often as it is in the contour, every split
\* cubic has its first piece in one Path and its second piece in the other,
\* nothing else is in the Paths, and the pieces number the original segments
\* plus the split cubics.
C6_SegmentsConserved ==
    SplitReturned =>
        /\ \A piece \in DuePieces \cup ReturnedPieces :
              Occurrences(result[1], piece) + Occurrences(result[2], piece) = Due(piece)
        /\ \A i \in SplitIndices :
              \/ /\ InPath(result[1], FirstPiece(self.segments[i]))
                 /\ InPath(result[2], SecondPiece(self.segments[i]))
              \/ /\ InPath(result[2], FirstPiece(self.segments[i]))
                 /\ InPath(result[1], SecondPiece(self.segments[i]))
        /\ Cardinality(Positions(result[1])) + Cardinality(Positions(result[2]))
              = Len(self.segments) + Cardinality(SplitIndices)

\* a contour with a split cubic and a line has been split, and the wraparound
\* join has merged two groups of one side
C6_Witness ==
    /\ SplitReturned
    /\ SplitIndices # {}
    /\ \E i \in WholeIndices : Len(self.segments[i].points) = 2
    /\ Len(result[2].contours) < Len(sides[2])

\* the four edges of Square10 in drawing order
SquareLeft == Line(HP(0, 0), HP(0, 20))
SquareTop == Line(HP(0, 20), HP(20, 20))
SquareRight == Line(HP(20, 20), HP(20, 0))
SquareBottom == Line(HP(20, 0), HP(0, 0))

\* C7 as stated: the square split at angle 0 gives two Paths of one open
\* 2-segment contour each, the top edge in one and the bottom edge in the other
C7_SquareSplitAsStated ==
    (SplitReturned /\ self = Square10 /\ splitAngle = 0) =>
        /\ \A k \in {1, 2} :
              /\ Len(result[k].contours) = 1
              /\ ~result[k].contours[1].closed
              /\ Len(result[k].contours[1].segments) = 2
        /\ \/ InPath(result[1], SquareTop) /\ InPath(result[2], SquareBottom)
           \/ InPath(result[2], SquareTop) /\ InPath(result[1], SquareBottom)

\* C7: the square split at angle 0 gives a first Path of one open contour that
\* holds the right edge alone, and a second Path of one open contour that holds
\* the bottom, left and top edges in this order
C7_SquareSplit ==
    (SplitReturned /\ self = Square10 /\ splitAngle = 0) =>
        /\ result[1] = Path(<<Contour(<<SquareRight>>, FALSE)>>)
        /\ result[2] = Path(<<Contour(<<SquareBottom, SquareLeft, SquareTop>>, FALSE)>>)

\* the square has been split, and the second side had two groups to join
C7_Witness ==
    /\ SplitReturned
    /\ self = Square10
    /\ splitAngle = 0
    /\ Len(sides[2]) = 2
    /\ Len(result[2].contours) = 1

\* cut direction x first chord, and cut direction x last chord
FirstCross(segment) ==
    whichSide(Pt(Cos(splitAngle), Sin(splitAngle)),
              Pt(segment.points[2][1] - segment.points[1][1],
                 segment.points[2][2] - segment.points[1][2]))

LastCross(segment) ==
    whichSide(Pt(Cos(splitAngle), Sin(splitAngle)),
              Pt(segment.points[4][1] - segment.points[3][1],
                 segment.points[4][2] - segment.points[3][2]))

\* the returned Path a cross product stands for, when non-negative goes to
\* the Path numbered nonNegative and negative to the other one
PathFor(cross, nonNegative) == IF cross >= 0 THEN nonNegative ELSE 3 - nonNegative

\* every piece is in the Path its cross product stands for
PlacedBy(nonNegative) ==
    /\ \A i \in WholeIndices :
          InPath(result[PathFor(FirstCross(self.segments[i]), nonNegative)],
                 self.segments[i])
    /\ \A i \in SplitIndices :
          /\ InPath(result[PathFor(FirstCross(self.segments[i]), nonNegative)],
                    FirstPiece(self.segments[i]))
          /\ InPath(result[PathFor(LastCross(self.segments[i]), nonNegative)],
                    SecondPiece(self.segments[i]))

\* C8 as stated: a non-negative cross product puts the segment in the first
\* returned Path, a negative one in the second
C8_SidesAsStated == SplitReturned => PlacedBy(1)

\* C8: a non-negative cross product puts the segment in the second returned
\* Path, a negative one in the first; a split cubic has its first piece placed
\* by its first chord and its second piece by its last chord
C8_Sides == SplitReturned => PlacedBy(2)

\* a contour with chords on both sides and a chord along the cut direction
C8_Witness ==
    /\ SplitReturned
    /\ \E i \in WholeIndices : FirstCross(self.segments[i]) > 0
    /\ \E i \in WholeIndices : FirstCross(self.segments[i]) = 0
    /\ \E i \in WholeIndices : FirstCross(self.segments[i]) < 0
    /\ SplitIndices # {}

-----------------------------------------------------------------------------
(* extrudePath *)

Reversed(seq) == [k \in 1..Len(seq) |-> seq[Len(seq) + 1 - k]]

SegmentReverse(segment) == Segment(Reversed(segment.points))

ContourReverse(contour) ==
    Contour(Reversed([k \in DOMAIN contour.segments |-> SegmentReverse(contour.segments[k])]),
            contour.closed)

SegmentTranslate(segment, dx, dy) ==
    Segment([k \in DOMAIN segment.points |->
                Pt(segment.points[k][1] + dx, segment.points[k][2] + dy)])

ContourTranslate(contour, dx, dy) ==
    Contour([k \in DOMAIN contour.segments |-> SegmentTranslate(contour.segments[k], dx, dy)],
            contour.closed)

\* Path.translate, on the list of contours
PathTranslate(contourList, dx, dy) ==
    [k \in DOMAIN contourList |-> ContourTranslate(contourList[k], dx, dy)]

\* Ribbon without seg21, the connector back to the start
RibbonLeftOpen(segments1, segments2) ==
    Contour(segments1
                \o <<Line(Last(Last(segments1).points), segments2[1].points[1])>>
                \o segments2,
            TRUE)

\* Contour(segments1 + [seg12] + segments2 + [seg21], True)
Ribbon(segments1, segments2) ==
    Contour(segments1
                \o <<Line(Last(Last(segments1).points), segments2[1].points[1])>>
                \o segments2
                \o <<Line(Last(Last(segments2).points), segments1[1].points[1])>>,
            TRUE)

\* the body of the loop over zip(path.contours, pathOffset.contours)
ExtrudedContour(cont1, cont2, rev) ==
    IF rev
    THEN ContourReverse(Ribbon(cont1.segments, ContourReverse(cont2).segments))
    ELSE Ribbon(cont1.segments, ContourReverse(cont2).segments)

\* up to the loop: the offset copy is a function of path and offset
ExtrudePathCall ==
    /\ pc = "start"
    /\ pc' = "loop"
    /\ extruded' = <<>>
    /\ UNCHANGED <<result, path, offset, reverse, sortVars, argVars, boundsVars, splitVars, penVars>>

\* one turn of the loop; a contour without segments has no segments1[-1]
ExtrudePathContour ==
    /\ pc = "loop"
    /\ Len(extruded) < Len(path)
    /\ IF Len(At(path, Len(extruded)).segments) = 0
       THEN /\ pc' = "raised"
            /\ UNCHANGED extruded
       ELSE /\ pc' = "loop"
            /\ extruded' =
                  Append(extruded,
                         ExtrudedContour(At(path, Len(extruded)),
                                         At(PathTranslate(path, offset[1], offset[2]),
                                            Len(extruded)),
                                         reverse))
    /\ UNCHANGED <<result, path, offset, reverse, sortVars, argVars, boundsVars, splitVars, penVars>>

ExtrudePathReturn ==
    /\ pc = "loop"
    /\ Len(extruded) = Len(path)
    /\ pc' = "returned"
    /\ result' = Path(extruded)
    /\ UNCHANGED <<extrudeVars, sortVars, argVars, boundsVars, splitVars, penVars>>

\* the contours extrudePath is given: open strokes as splitAtAngle makes them,
\* a closed square, a lone cubic, and a contour without segments
Stroke == Polyline(<<HP(0, 0), HP(0, 2), HP(2, 2)>>, FALSE)
Dash == Polyline(<<HP(2, 0), HP(0, 0)>>, FALSE)
ArchStroke == Contour(<<Arch, Line(HP(2, 0), HP(1, 0))>>, FALSE)
EmptyContour == Contour(<<>>, FALSE)
ExtrudePool == {Stroke, Dash, ArchStroke, UnitSquare(0), EmptyContour}

\* (depth * cos(angle), depth * sin(angle))
Offsets == {Pt(0, 0), HP(2, 0), HP(-1, 3)}

InitExtrude ==
    /\ pc = "start"
    /\ result = <<>>
    /\ path \in SeqsUpTo(ExtrudePool, MaxPathContours)
    /\ offset \in Offsets
    /\ reverse \in BOOLEAN
    /\ extruded = <<>>
    /\ IdleSort /\ IdleSplit /\ IdlePen /\ IdleBounds /\ IdleArgs

NextExtrude ==
    \/ ExtrudePathCall
    \/ ExtrudePathContour
    \/ ExtrudePathReturn

SpecExtrude == InitExtrude /\ [][NextExtrude]_vars

-----------------------------------------------------------------------------
(* Properties of extrudePath *)

ExtrudeFinished == pc \in {"returned", "raised"} /\ ~IdleExtrude

AllHaveSegments == \A k \in DOMAIN path : Len(path[k].segments) >= 1

-----------------------------------------------------------------------------
(* PathBuilderPen and Path.draw *)

\* the calls of the pen protocol
MoveTo(pt) == [op |-> "moveTo", points |-> <<pt>>]
LineTo(pt) == [op |-> "lineTo", points |-> <<pt>>]
CurveTo(pt2, pt3, pt4) == [op |-> "curveTo", points |-> <<pt2, pt3, pt4>>]
ClosePath == [op |-> "closePath", points |-> <<>>]
EndPath == [op |-> "endPath", points |-> <<>>]

\* Path.append
PathAppend(contourList, contour) == Append(contourList, contour)

\* Path.appendSegment: self.contours[-1].append(segment)
PathAppendSegment(contourList, segment) ==
    [contourList EXCEPT ![Len(contourList)] = Contour(Append(@.segments, segment), @.closed)]

\* Contour.closePath that never adds the closing line
ContourClosePathNoLine(contour) == Contour(contour.segments, TRUE)

\* Contour.closePath, on a contour that has segments
ContourClosePath(contour) ==
    IF contour.segments[1].points[1] # Last(Last(contour.segments).points)
    THEN Contour(Append(contour.segments,
                        Line(Last(Last(contour.segments).points),
                             contour.segments[1].points[1])),
                 TRUE)
    ELSE Contour(contour.segments, TRUE)

\* Path.closePath
PathClosePath(contourList) ==
    [contourList EXCEPT ![Len(contourList)] = ContourClosePath(@)]

\* the pen after a call that went through
PenAfter(contourList, pt) ==
    /\ pc' = "feed"
    /\ penPath' = contourList
    /\ currentPoint' = pt

\* the pen after a call that raised
PenRaised ==
    /\ pc' = "raised"
    /\ UNCHANGED <<penPath, currentPoint>>

\* BasePen passes each call on to _moveTo, _lineTo, _curveToOne, _closePath or
\* _endPath; PathBuilderPen has no _endPath of its own
PenCall(command) ==
    CASE command.op = "moveTo" ->
            PenAfter(PathAppend(penPath, Contour(<<>>, FALSE)), command.points[1])
      [] command.op = "lineTo" ->
            PenAfter(PathAppendSegment(penPath, Line(currentPoint, command.points[1])),
                     command.points[1])
      [] command.op = "curveTo" ->
            PenAfter(PathAppendSegment(penPath,
                                       Cubic(currentPoint, command.points[1],
                                             command.points[2], command.points[3])),
                     command.points[3])
      [] command.op = "closePath" ->
            IF Len(Last(penPath).segments) = 0
            THEN PenRaised
            ELSE PenAfter(PathClosePath(penPath), currentPoint)
      [] command.op = "endPath" -> PenAfter(penPath, currentPoint)

\* PathBuilderPen(None): an empty Path and no current point
PenCreate ==
    /\ pc = "start"
    /\ pc' = "feed"
    /\ penPath' = <<>>
    /\ currentPoint' = <<>>
    /\ UNCHANGED <<result, outline, fed, drawn, replay,
                   sortVars, argVars, boundsVars, splitVars, extrudeVars>>

\* the source of the outline makes its next call on the pen
PenFeed ==
    /\ pc = "feed"
    /\ fed < Len(outline)
    /\ fed' = fed + 1
    /\ PenCall(At(outline, fed))
    /\ UNCHANGED <<result, outline, drawn, replay, sortVars, argVars, boundsVars, splitVars, extrudeVars>>

\* the outline is through: pen.path.draw(recordingPen) begins
PathDraw ==
    /\ pc = "feed"
    /\ fed = Len(outline)
    /\ pc' = "draw"
    /\ UNCHANGED <<result, outline, fed, penPath, currentPoint, drawn, replay,
                   sortVars, argVars, boundsVars, splitVars, extrudeVars>>

\* the call Contour.draw makes for one segment
SegmentCommand(segment) ==
    IF Len(segment.points) = 2
    THEN LineTo(segment.points[2])
    ELSE CurveTo(segment.points[2], segment.points[3], segment.points[4])

\* the calls of Contour.draw, on a contour that has segments
ContourDrawCalls(contour) ==
    <<MoveTo(contour.segments[1].points[1])>>
        \o [k \in DOMAIN contour.segments |-> SegmentCommand(contour.segments[k])]
        \o <<IF contour.closed THEN ClosePath ELSE EndPath>>

\* Contour.draw of the next contour; without segments there is no segments[0]
ContourDraw ==
    /\ pc = "draw"
    /\ drawn < Len(penPath)
    /\ IF Len(At(penPath, drawn).segments) = 0
       THEN /\ pc' = "raised"
            /\ UNCHANGED <<drawn, replay>>
       ELSE /\ pc' = "draw"
            /\ drawn' = drawn + 1
            /\ replay' = replay \o ContourDrawCalls(At(penPath, drawn))
    /\ UNCHANGED <<result, outline, fed, penPath, currentPoint,
                   sortVars, argVars, boundsVars, splitVars, extrudeVars>>

\* Path.draw has drawn every contour
PathDrawReturn ==
    /\ pc = "draw"
    /\ drawn = Len(penPath)
    /\ pc' = "returned"
    /\ result' = replay
    /\ UNCHANGED <<penVars, sortVars, argVars, boundsVars, splitVars, extrudeVars>>

\* the points of the generated outlines
OutlinePoints == {HP(0, 0), HP(2, 0), HP(2, 2)}

DrawCommands ==
    {LineTo(pt) : pt \in OutlinePoints}
        \cup {CurveTo(HP(0, 1), HP(1, 2), pt) : pt \in OutlinePoints}

\* one contour of an outline: moveTo, some lineTo and curveTo, closePath or endPath
OutlineContours ==
    {<<MoveTo(start)>> \o body \o <<last>> :
        start \in {HP(0, 0), HP(2, 2)},
        body \in SeqsUpTo(DrawCommands, MaxDrawCommands),
        last \in {ClosePath, EndPath}}

RECURSIVE Concat(_)
Concat(seqs) == IF seqs = <<>> THEN <<>> ELSE Head(seqs) \o Concat(Tail(seqs))

Outlines == {Concat(cs) : cs \in SeqsUpTo(OutlineContours, MaxOutlineContours)}

InitPen ==
    /\ pc = "start"
    /\ result = <<>>
    /\ outline \in Outlines
    /\ fed = 0
    /\ penPath = <<>>
    /\ currentPoint = <<>>
    /\ drawn = 0
    /\ replay = <<>>
    /\ IdleSort /\ IdleSplit /\ IdleExtrude /\ IdleBounds /\ IdleArgs

NextPen ==
    \/ PenCreate
    \/ PenFeed
    \/ PathDraw
    \/ ContourDraw
    \/ PathDrawReturn

SpecPen == InitPen /\ [][NextPen]_vars

-----------------------------------------------------------------------------
(* Properties of the pen round trip *)

PenFinished == pc \in {"returned", "raised"} /\ outline # <<>>

\* the point of the moveTo that opened the contour command k belongs to
StartOf(commands, k) ==
    commands[SetMax({j \in 1..k : commands[j].op = "moveTo"})].points[1]

\* a lineTo back to the start of the contour, right before its closePath
IsClosingLine(commands, k) ==
    /\ k < Len(commands)
    /\ commands[k].op = "lineTo"
    /\ commands[k + 1].op = "closePath"
    /\ commands[k].points[1] = StartOf(commands, k)

\* the commands from the k-th on, without the closing lines
RECURSIVE WithoutClosingLinesFrom(_, _)
WithoutClosingLinesFrom(commands, k) ==
    IF k > Len(commands) THEN <<>>
    ELSE (IF IsClosingLine(commands, k) THEN <<>> ELSE <<commands[k]>>)
             \o WithoutClosingLinesFrom(commands, k + 1)

\* two command sequences draw the same outline when they differ at most in
\* closing lines that closePath implies anyway
Equivalent(commands1, commands2) ==
    WithoutClosingLinesFrom(commands1, 1) = WithoutClosingLinesFrom(commands2, 1)

\* C10 as stated: every outline fed to PathBuilderPen and replayed with
\* Path.draw comes back as an equivalent command sequence, with the same points
\* in the same order and the same line/curve/close structure in every contour
C10_RoundTrip ==
    PenFinished => (pc = "returned" /\ Equivalent(result, outline))

\* the contours of the outline that consist of a moveTo alone
HasBareMoveTo ==
    \E k \in 1..(Len(outline) - 1) :
        outline[k].op = "moveTo" /\ outline[k + 1].op \in {"closePath", "endPath"}

\* outlines in which every contour has a lineTo or a curveTo do come back
\* equivalent, the closing line of a closed contour made explicit
RoundTripWithSegments ==
    (PenFinished /\ ~HasBareMoveTo) =>
        /\ pc = "returned"
        /\ Equivalent(result, outline)
        /\ Len(result) >= Len(outline)

\* a closed contour that does not end where it starts has been replayed with
\* one more lineTo than it was fed with
ClosingLineMadeExplicit ==
    /\ pc = "returned"
    /\ outline = <<MoveTo(HP(0, 0)), LineTo(HP(2, 0)), LineTo(HP(2, 2)), ClosePath>>
    /\ result = <<MoveTo(HP(0, 0)), LineTo(HP(2, 0)), LineTo(HP(2, 2)), LineTo(HP(0, 0)),
                  ClosePath>>

-----------------------------------------------------------------------------
(* PathBuilderPen fed with calls in any order *)

\* the calls a caller may make in any order once the first moveTo is through
AnyCalls ==
    {MoveTo(pt) : pt \in {HP(0, 0), HP(2, 2)}}
        \cup {LineTo(pt) : pt \in OutlinePoints}
        \cup {CurveTo(HP(0, 1), HP(1, 2), pt) : pt \in OutlinePoints}
        \cup {ClosePath}

\* sequences of 1..n calls that begin with a moveTo
CallSequences(n) ==
    {<<first>> \o rest :
        first \in {MoveTo(pt) : pt \in {HP(0, 0), HP(2, 2)}},
        rest \in SeqsUpTo(AnyCalls, n - 1)}

InitPenAnyOrder ==
    /\ pc = "start"
    /\ result = <<>>
    /\ outline \in CallSequences(MaxCalls)
    /\ fed = 0
    /\ penPath = <<>>
    /\ currentPoint = <<>>
    /\ drawn = 0
    /\ replay = <<>>
    /\ IdleSort /\ IdleSplit /\ IdleExtrude /\ IdleBounds /\ IdleArgs

SpecPenAnyOrder == InitPenAnyOrder /\ [][NextPen]_vars

\* each segment starts where the one before it ends
Chained(contour) ==
    \A k \in 2..Len(contour.segments) :
        contour.segments[k].points[1] = Last(contour.segments[k - 1].points)

\* a contour marked closed ends where it starts
ClosedAtStart(contour) ==
    contour.closed =>
        /\ Len(contour.segments) > 0
        /\ contour.segments[1].points[1] = Last(Last(contour.segments).points)

PenPathWellFormed ==
    \A k \in DOMAIN penPath : Chained(penPath[k]) /\ ClosedAtStart(penPath[k])

\* among the first n calls, a lineTo or curveTo that follows a closePath with
\* no moveTo in between
DrawsAfterClose(commands, n) ==
    \E j, k \in 1..n :
        /\ j < k
        /\ commands[j].op = "closePath"
        /\ commands[k].op \in {"lineTo", "curveTo"}
        /\ \A m \in (j + 1)..(k - 1) : commands[m].op # "moveTo"

\* C11 as stated: after any sequence of moveTo, lineTo, curveTo and closePath
\* calls that begins with a moveTo, every contour of the built Path is chained
\* and every closed contour ends where it starts
C11_ChainedAsStated == (pc \in {"feed", "raised"}) => PenPathWellFormed

\* C11: the same, for the sequences in which no lineTo or curveTo follows a
\* closePath without a moveTo in between
C11_Chained ==
    (pc \in {"feed", "raised"} /\ ~DrawsAfterClose(outline, fed)) => PenPathWellFormed

\* a contour has been closed with a synthesized closing line and a second
\* contour has been begun with a curve, each drawing call after a moveTo
C11_Witness ==
    /\ pc = "feed"
    /\ fed = 4
    /\ ~DrawsAfterClose(outline, fed)
    /\ Len(penPath) = 2
    /\ penPath[1].closed
    /\ Len(penPath[1].segments) = 2
    /\ outline[2].op = "curveTo"

-----------------------------------------------------------------------------
(* The methods of Contour and Path as calls on a value *)

\* the end of a call that returns a value, and of one that raises
Returns(value) ==
    /\ pc' = "returned"
    /\ result' = value
    /\ UNCHANGED <<sortVars, argVars, boundsVars, splitVars, extrudeVars, penVars>>

Raises ==
    /\ pc' = "raised"
    /\ UNCHANGED <<result, sortVars, argVars, boundsVars, splitVars, extrudeVars, penVars>>

Called(name) == pc = "start" /\ method = name

ContourTranslateCall ==
    /\ Called("Contour.translate")
    /\ Returns(ContourTranslate(self, offset[1], offset[2]))

ContourTransformCall ==
    /\ Called("Contour.transform")
    /\ Returns(ContourTransform(self, transform))

ContourReverseCall ==
    /\ Called("Contour.reverse")
    /\ Returns(ContourReverse(self))

\* Path(map(Contour, groups)): the contours are the items a one-shot iterator
\* has still to give
LazyPath(contourList) == [contours |-> contourList, lazy |-> TRUE]

\* a Path after n of its contours have been iterated over: a list stays as it
\* is, an iterator has given its first n items away
Iterated(p, n) ==
    IF "lazy" \in DOMAIN p
    THEN [p EXCEPT !.contours = SubSeq(@, n + 1, Len(@))]
    ELSE p

\* the end of a Path method that has iterated over all of self.contours
PathReturns(value) ==
    /\ pc' = "returned"
    /\ result' = value
    /\ self' = Iterated(self, Len(self.contours))
    /\ UNCHANGED <<method, splitAngle, sides, previousSide, segmentIndex,
                   sortVars, argVars, boundsVars, extrudeVars, penVars>>

\* the end of a Path method that raises in the turn of the loop for the
\* first contour flagged
PathRaises(flags) ==
    /\ pc' = "raised"
    /\ self' = Iterated(self, SetMin({k \in DOMAIN flags : flags[k]}))
    /\ UNCHANGED <<result, method, splitAngle, sides, previousSide, segmentIndex,
                   sortVars, argVars, boundsVars, extrudeVars, penVars>>

PathTranslateCall ==
    /\ Called("Path.translate")
    /\ PathReturns(Path(PathTranslate(self.contours, offset[1], offset[2])))

PathTransform(contourList, t) ==
    [k \in DOMAIN contourList |-> ContourTransform(contourList[k], t)]

PathTransformCall ==
    /\ Called("Path.transform")
    /\ PathReturns(Path(PathTransform(self.contours, transform)))

\* the first two points' delta, and the delta a segment leaves as lastDelta
EntryDelta(segment) ==
    Pt(segment.points[2][1] - segment.points[1][1],
       segment.points[2][2] - segment.points[1][2])

\* ExitDelta that leaves a cubic's first delta in lastDelta
ExitDeltaOfFirstPoints(segment) == EntryDelta(segment)

ExitDelta(segment) ==
    IF Len(segment.points) = 4
    THEN Pt(segment.points[4][1] - segment.points[3][1],
            segment.points[4][2] - segment.points[3][2])
    ELSE EntryDelta(segment)

\* math.hypot(x, y) squared
SquaredLength(d) == d[1] * d[1] + d[2] * d[2]

\* abs(whichSide(normalize(*lastDelta), normalize(*d))) > 0.1, both sides
\* squared and multiplied by the squared lengths; a delta of length 0 is the
\* only one below the 1e-11 of normalize, it normalizes to (0, 0)
SharperThanTenth(a, b) ==
    100 * whichSide(a, b) * whichSide(a, b) > SquaredLength(a) * SquaredLength(b)

\* the delta divided by the greatest common divisor of its coordinates:
\* normalize gives both the same unit vector
Shortest(d, g) == IF g = 0 THEN d ELSE Pt(d[1] \div g, d[2] \div g)

Direction(d) == Shortest(d, GCD(Abs(d[1]), Abs(d[2])))

IsSharpCorner(lastDelta, d) == SharperThanTenth(Direction(lastDelta), Direction(d))

\* if the corner is sharp: contours.append([]); then contours[-1].append(segment)
CornerStep(groups, segment, sharp) ==
    IF sharp THEN Append(groups, <<segment>>) ELSE AppendToLast(groups, segment)

\* the loop of splitAtSharpCorners from the k-th segment on
RECURSIVE CornerGroups(_, _, _)
CornerGroups(segments, k, groups) ==
    IF k > Len(segments) THEN groups
    ELSE CornerGroups(segments, k + 1,
                      CornerStep(groups, segments[k],
                                 k > 1 /\ IsSharpCorner(ExitDelta(segments[k - 1]),
                                                        EntryDelta(segments[k]))))

\* Contour.splitAtSharpCorners after its assertion
ContourSplitAtSharpCorners(contour) ==
    PathOfGroups(CornerGroups(contour.segments, 1, <<<<>>>>))

\* Contour.splitAtSharpCorners without its assertion
ContourSplitAtSharpCornersUnchecked ==
    /\ Called("Contour.splitAtSharpCorners")
    /\ Returns(ContourSplitAtSharpCorners(self))

ContourSplitAtSharpCornersCall ==
    /\ Called("Contour.splitAtSharpCorners")
    /\ IF self.closed
       THEN Raises
       ELSE Returns(ContourSplitAtSharpCorners(self))

\* Path.splitAtSharpCorners: the assertion of any contour ends the whole call
PathSplitAtSharpCornersCall ==
    /\ Called("Path.splitAtSharpCorners")
    /\ IF \E k \in DOMAIN self.contours : self.contours[k].closed
       THEN PathRaises([k \in DOMAIN self.contours |-> self.contours[k].closed])
       ELSE PathReturns(Path(Concat([k \in DOMAIN self.contours |->
                                        ContourSplitAtSharpCorners(self.contours[k]).contours])))

\* the loop of Contour.splitAtAngle from the k-th segment on
RECURSIVE TurnsFrom(_, _, _, _)
TurnsFrom(segments, k, angle, turn) ==
    IF turn.error \/ k > Len(segments) THEN turn
    ELSE TurnsFrom(segments, k + 1, angle,
                   SegmentTurn(turn.sides, turn.previousSide, segments[k], angle))

\* what a call of Contour.splitAtAngle comes to: two lists of contours, or a
\* failed assertion
SplitOutcome(turn) ==
    IF turn.error
    THEN [error |-> TRUE, left |-> <<>>, right |-> <<>>]
    ELSE [error |-> FALSE,
          left |-> PathOfGroups(MergeWraparound(turn.sides[1])).contours,
          right |-> PathOfGroups(MergeWraparound(turn.sides[2])).contours]

ContourSplitAtAngle(contour, angle) ==
    IF /\ contour.closed
       /\ Len(contour.segments) > 0
       /\ contour.segments[1].points[1] = Last(Last(contour.segments).points)
    THEN SplitOutcome(TurnsFrom(contour.segments, 1, angle, Turn(<<<<>>, <<>>>>, -1, FALSE)))
    ELSE SplitOutcome(Turn(<<>>, -1, TRUE))

\* Path.splitAtAngle, given the outcome for each of its contours
PathSplitEnd(outcomes) ==
    IF \E k \in DOMAIN outcomes : outcomes[k].error
    THEN PathRaises([k \in DOMAIN outcomes |-> outcomes[k].error])
    ELSE PathReturns(<<Path(Concat([k \in DOMAIN outcomes |-> outcomes[k].left])),
                       Path(Concat([k \in DOMAIN outcomes |-> outcomes[k].right]))>>)

PathSplitAtAngleCall ==
    /\ Called("Path.splitAtAngle")
    /\ PathSplitEnd([k \in DOMAIN self.contours |->
                        ContourSplitAtAngle(self.contours[k], splitAngle)])

\* the Segment objects of a value a method is called on carry their identity:
\* c numbers the contour, k the segment in it; Segment(...) makes a new object,
\* which carries none
WithIdentity(contour, c) ==
    Contour([k \in DOMAIN contour.segments |->
                [points |-> contour.segments[k].points, id |-> <<c, k>>]],
            contour.closed)

PathWithIdentity(contourList) ==
    [c \in DOMAIN contourList |-> WithIdentity(contourList[c], c)]

\* the contours methods are called on: open with and without a sharp corner,
\* open with a cubic, closed, closed with a cubic that is split, closed with a
\* cubic too complex to split, flagged closed with a gap, and without segments
Straight == Polyline(<<HP(0, 0), HP(1, 0), HP(2, 0)>>, FALSE)
ArchLoop == Contour(<<Arch, Line(HP(2, 0), HP(0, 0))>>, TRUE)
HumpLoop == Contour(<<Hump, Line(HP(2, 0), HP(0, 0))>>, TRUE)
MethodPool ==
    {Stroke, Straight, ArchStroke, Square10, ArchLoop, HumpLoop, GapContour, EmptyContour}

\* the lists of contours in the Paths Contour.splitAtAngle returns
SplitSides ==
    UNION {{ContourSplitAtAngle(contour, 0).left, ContourSplitAtAngle(contour, 0).right} :
              contour \in {c \in MethodPool : ~ContourSplitAtAngle(c, 0).error}}

ContourMethods ==
    {"Contour.translate", "Contour.transform", "Contour.reverse",
     "Contour.splitAtAngle", "Contour.splitAtSharpCorners"}

PathMethods ==
    {"Path.translate", "Path.transform", "Path.splitAtAngle", "Path.splitAtSharpCorners"}

\* the arguments a method takes; the others stay as they are when idle
OffsetsOf(name) ==
    IF name \in {"Contour.translate", "Path.translate", "extrudePath"}
    THEN Offsets ELSE {<<>>}

TransformsOf(name) ==
    IF name \in {"Contour.transform", "Path.transform"} THEN Transforms ELSE {<<>>}

InitMethods ==
    /\ pc = "start"
    /\ result = <<>>
    /\ contours = <<>> /\ deps = <<>> /\ data = <<>> /\ sortedIndices = <<>>
    /\ sides = <<>> /\ previousSide = -1 /\ segmentIndex = 0
    /\ extruded = <<>>
    /\ IdlePen /\ IdleBounds /\ IdleArgs
    /\ method \in ContourMethods \cup PathMethods \cup {"extrudePath"}
    /\ splitAngle = 0
    /\ offset \in OffsetsOf(method)
    /\ transform \in TransformsOf(method)
    /\ reverse \in (IF method = "extrudePath" THEN BOOLEAN ELSE {FALSE})
    /\ self \in
          IF method \in ContourMethods
          THEN {WithIdentity(contour, 1) : contour \in MethodPool}
          ELSE IF method \in PathMethods
          THEN {Path(PathWithIdentity(contourList)) :
                   contourList \in SeqsUpTo(MethodPool, MaxMethodContours)}
                  \cup {LazyPath(PathWithIdentity(contourList)) :
                           contourList \in SplitSides}
          ELSE {<<>>}
    /\ path \in
          IF method = "extrudePath"
          THEN {PathWithIdentity(contourList) :
                   contourList \in SeqsUpTo(MethodPool, MaxMethodContours)}
          ELSE {<<>>}

NextMethods ==
    \/ ContourTranslateCall
    \/ ContourTransformCall
    \/ ContourReverseCall
    \/ ContourSplitAtSharpCornersCall
    \/ PathTranslateCall
    \/ PathTransformCall
    \/ PathSplitAtAngleCall
    \/ PathSplitAtSharpCornersCall
    \/ (method = "Contour.splitAtAngle" /\ SplitAtAngleCall)
    \/ (method = "Contour.splitAtAngle" /\ SplitAtAngleSegment)
    \/ (method = "Contour.splitAtAngle" /\ SplitAtAngleReturn)
    \/ (method = "extrudePath" /\ ExtrudePathCall)
    \/ (method = "extrudePath" /\ ExtrudePathContour)
    \/ (method = "extrudePath" /\ ExtrudePathReturn)

SpecMethods == InitMethods /\ [][NextMethods]_vars

-----------------------------------------------------------------------------
\* Claims about the methods' effect on their source

MethodReturned == pc = "returned"

\* C12: translate, transform, reverse, splitAtAngle, splitAtSharpCorners and
\* extrudePath leave the value they are applied to unchanged: no step of a call
\* changes the Contour or Path it is applied to, nor the Path given to
\* extrudePath.
C12_SourceUnchanged == [][self' = self /\ path' = path]_vars

\* the calls on Contours and on Paths that hold a list do leave them alone
SourceListUnchanged ==
    [][("lazy" \notin DOMAIN self) => (self' = self /\ path' = path)]_vars

\* a Path returned by Contour.splitAtAngle has lost its contours to a call
PathExhausted ==
    /\ MethodReturned
    /\ method \in PathMethods
    /\ "lazy" \in DOMAIN self
    /\ self.contours = <<>>
    /\ result # Path(<<>>)

\* the contours of the value a call has returned
ReturnedContours ==
    IF method \in {"Contour.translate", "Contour.transform", "Contour.reverse"}
    THEN <<result>>
    ELSE IF method \in {"Contour.splitAtAngle", "Path.splitAtAngle"}
    THEN result[1].contours \o result[2].contours
    ELSE result.contours

ReturnedSegments ==
    UNION {Range(ReturnedContours[k].segments) : k \in DOMAIN ReturnedContours}

\* C13: the values returned by translate, transform, reverse, splitAtAngle,
\* splitAtSharpCorners and extrudePath share no Segment object with their
\* source: no segment of a returned value is one of the source's own segments.
C13_NothingShared ==
    MethodReturned => \A segment \in ReturnedSegments : "id" \notin DOMAIN segment

\* translate, transform, reverse and extrudePath with reverse=True do return
\* segments of their own only
NewSegmentsOnly ==
    (/\ MethodReturned
     /\ \/ method \in {"Contour.translate", "Contour.transform", "Contour.reverse",
                        "Path.translate", "Path.transform"}
        \/ method = "extrudePath" /\ reverse)
        => \A segment \in ReturnedSegments : "id" \notin DOMAIN segment

-----------------------------------------------------------------------------
(* controlBounds, read between the mutations of a Path *)

\* most contours of the Path, and most segments appended to one contour
MaxBoundsContours == 2
MaxBoundsSegments == 1

\* what controlBounds returns for an object without points
None == [none |-> TRUE]

\* the body of Contour.controlBounds and Path.controlBounds
BoundsOfPoints(points) == IF points = <<>> THEN None ELSE BoundingBox(points)

RECURSIVE PathPointsFrom(_, _)
PathPointsFrom(contourList, k) ==
    IF k > Len(contourList) THEN <<>>
    ELSE ContourPoints(contourList[k]) \o PathPointsFrom(contourList, k + 1)

\* an object of the Path self: <<>> is the Path, <<k>> its k-th contour and
\* <<k, j>> the j-th segment of that contour; the points it holds
PointsOf(object) ==
    IF Len(object) = 0 THEN PathPointsFrom(self.contours, 1)
    ELSE IF Len(object) = 1 THEN ContourPoints(self.contours[object[1]])
    ELSE self.contours[object[1]].segments[object[2]].points

Objects ==
    {<<>>} \cup {<<k>> : k \in DOMAIN self.contours}
           \cup UNION {{<<k, j>> : j \in DOMAIN self.contours[k].segments} :
                          k \in DOMAIN self.contours}

\* functools.cached_property: the stored value if the object has one, else
\* the value computed now, which is stored
CachedProperty(object, computed) ==
    IF object \in DOMAIN cachedBounds THEN cachedBounds[object] ELSE computed

ControlBoundsRead ==
    /\ pc \in {"start", "mutated", "read"}
    /\ \E object \in Objects :
          /\ receiver' = object
          /\ result' = CachedProperty(object, BoundsOfPoints(PointsOf(object)))
          /\ cachedBounds' = (object :> result') @@ cachedBounds
    /\ pc' = "read"
    /\ method' = "controlBounds"
    /\ UNCHANGED <<self, splitAngle, sides, previousSide, segmentIndex,
                   sortVars, argVars, extrudeVars, penVars>>

\* the end of a mutating call: nothing but self changes
Mutated(name, contourList) ==
    /\ pc' = "mutated"
    /\ method' = name
    /\ self' = Path(contourList)
    /\ UNCHANGED <<result, splitAngle, sides, previousSide, segmentIndex,
                   sortVars, argVars, extrudeVars, penVars, boundsVars>>

\* the segments appended: a line and a curve that reaches above it
BoundsSegments == {Line(HP(0, 0), HP(2, 0)), Arch}

PathAppendCall ==
    /\ pc \in {"start", "mutated", "read"}
    /\ Len(self.contours) < MaxBoundsContours
    /\ Mutated("Path.append", PathAppend(self.contours, Contour(<<>>, FALSE)))

\* self.contours[-1] of an empty list raises IndexError
PathAppendSegmentCall ==
    /\ pc \in {"start", "mutated", "read"}
    /\ self.contours # <<>>
    /\ Len(Last(self.contours).segments) < MaxBoundsSegments
    /\ \E segment \in BoundsSegments :
          Mutated("Path.appendSegment", PathAppendSegment(self.contours, segment))

\* Contour.closePath reads segments[0]: on a contour that has segments
PathClosePathCall ==
    /\ pc \in {"start", "mutated", "read"}
    /\ self.contours # <<>>
    /\ Last(self.contours).segments # <<>>
    /\ Mutated("Path.closePath", PathClosePath(self.contours))

\* Contour.append and Contour.closePath, called on a contour of the Path
ContourAppendCall ==
    /\ pc \in {"start", "mutated", "read"}
    /\ \E k \in DOMAIN self.contours, segment \in BoundsSegments :
          /\ Len(self.contours[k].segments) < MaxBoundsSegments
          /\ Mutated("Contour.append",
                     [self.contours EXCEPT ![k] = Contour(Append(@.segments, segment),
                                                          @.closed)])

ContourClosePathCall ==
    /\ pc \in {"start", "mutated", "read"}
    /\ \E k \in DOMAIN self.contours :
          /\ self.contours[k].segments # <<>>
          /\ Mutated("Contour.closePath",
                     [self.contours EXCEPT ![k] = ContourClosePath(@)])

InitBounds ==
    /\ pc = "start"
    /\ result = <<>>
    /\ method = ""
    /\ self = Path(<<>>)
    /\ splitAngle = 0 /\ sides = <<>> /\ previousSide = -1 /\ segmentIndex = 0
    /\ IdleSort /\ IdleExtrude /\ IdlePen /\ IdleBounds /\ IdleArgs

NextBounds ==
    \/ PathAppendCall
    \/ PathAppendSegmentCall
    \/ PathClosePathCall
    \/ ContourAppendCall
    \/ ContourClosePathCall
    \/ ControlBoundsRead

SpecBounds == InitBounds /\ [][NextBounds]_vars

\* C14: after any sequence of append, appendSegment and closePath calls and
\* controlBounds reads, each controlBounds read on a Segment, Contour or Path
\* returns the bounding box of the points the object holds at that moment.
C14_NeverStale ==
    (pc = "read") => result = BoundsOfPoints(PointsOf(receiver))

\* a read on a Segment is never stale: nothing mutates a Segment
SegmentBoundsNeverStale ==
    (pc = "read" /\ Len(receiver) = 2) => result = BoundsOfPoints(PointsOf(receiver))

\* a read on a Contour returns a box stored before the contour was appended to
StaleAfterMutation ==
    /\ pc = "read"
    /\ Len(receiver) = 1
    /\ result # BoundsOfPoints(PointsOf(receiver))

-----------------------------------------------------------------------------
\* Claims about the preconditions of the splits

\* the contour is not closed, or its first start point differs from its last
\* end point
NotClosedLoop(contour) ==
    \/ ~contour.closed
    \/ contour.segments = <<>>
    \/ contour.segments[1].points[1] # Last(Last(contour.segments).points)

PreconditionViolated ==
    \/ method = "Contour.splitAtAngle" /\ NotClosedLoop(self)
    \/ method = "Contour.splitAtSharpCorners" /\ self.closed
    \/ method = "Path.splitAtAngle"
          /\ \E k \in DOMAIN self.contours : NotClosedLoop(self.contours[k])
    \/ method = "Path.splitAtSharpCorners"
          /\ \E k \in DOMAIN self.contours : self.contours[k].closed

\* C15: a split called on a value that violates its precondition fails and
\* returns nothing: Contour.splitAtAngle on a contour that is not closed or
\* does not end where it starts, Contour.splitAtSharpCorners on a closed
\* contour, and the Path methods as a whole when one of the contours does.
C15_PreconditionAborts ==
    [][(pc = "start" /\ PreconditionViolated) => (pc' = "raised" /\ result' = <<>>)]_vars

\* Path.splitAtAngle has failed on its second contour after the first was split
C15_Witness ==
    /\ pc = "raised"
    /\ method = "Path.splitAtAngle"
    /\ result = <<>>
    /\ Len(self.contours) = 2
    /\ ~ContourSplitAtAngle(self.contours[1], 0).error
    /\ NotClosedLoop(self.contours[2])

-----------------------------------------------------------------------------
(* splitCurveAtAngle as a call of its own *)

\* the largest coordinate of a curve's points, in source units
MaxCoordinate == 2

\* the x coordinates of the four points: rising, falling, and turning at 1/2
XProfiles == {<<0, 1, 2, 3>>, <<3, 2, 1, 0>>, <<0, 2, 0, 2>>}

YProfiles == [1..4 -> 0..MaxCoordinate]

CurveOf(xs, ys) == [k \in 1..4 |-> HP(2 * xs[k], 2 * ys[k])]

\* b*b - 4*a*c of the first derivative of the polynomial q
Discriminant(q) == 4 * q.b * q.b - 12 * q.a * q.c

IsSquare(n, upTo) == \E r \in 0..upTo : r * r = n

\* the curves whose roots and pieces the integers of the model give exactly:
\* the roots are rational and those with 0 <= t < 1 are multiples of 1/4
ExactRoots(q) ==
    /\ Discriminant(q) > 0
          => IsSquare(Discriminant(q), 4 * (Abs(q.a) + Abs(q.b) + Abs(q.c)))
    /\ \A k \in DOMAIN YRoots(q) : YRoots(q)[k][2] \in {1, 2, 4}

Curves ==
    {curve \in {CurveOf(xs, ys) : xs \in XProfiles, ys \in YProfiles} :
        ExactRoots(TransformedParameters(curve, Rotate(0), 2))}

SplitCurveAtAngleReturn(split) ==
    IF split.error
    THEN pc' = "raised" /\ UNCHANGED result
    ELSE pc' = "returned" /\ result' = split

SplitCurveAtAngleCall ==
    /\ pc = "start"
    /\ SplitCurveAtAngleReturn(splitCurveAtAngle(givenCurve, splitAngle, givenBothDirections))
    /\ UNCHANGED <<method, self, splitAngle, sides, previousSide, segmentIndex,
                   sortVars, extrudeVars, penVars, boundsVars, argVars>>

InitCurve ==
    /\ pc = "start"
    /\ result = <<>>
    /\ givenCurve \in Curves
    /\ givenBothDirections \in BOOLEAN
    /\ IdleSegments
    /\ givenRects = <<>>
    /\ splitAngle \in Angles
    /\ method = "" /\ self = <<>>
    /\ sides = <<>> /\ previousSide = -1 /\ segmentIndex = 0
    /\ IdleSort /\ IdleExtrude /\ IdlePen /\ IdleBounds

NextCurve == SplitCurveAtAngleCall

SpecCurve == InitCurve /\ [][NextCurve]_vars

-----------------------------------------------------------------------------
\* Claims about splitCurveAtAngle

\* the polynomials of the rotated curve given, in x and in y
GivenX == TransformedParameters(givenCurve, Rotate(-splitAngle), 1)
GivenY == TransformedParameters(givenCurve, Rotate(-splitAngle), 2)

\* the first derivative of the polynomial q at t = t[1] / t[2], times t[2]^2
DerivativeAt(q, t) == 3 * q.a * t[1] * t[1] + 2 * q.b * t[1] * t[2] + q.c * t[2] * t[2]

\* the parameters t with 0 <= t < 1 at which the curves given can have a root
Quarters == {<<0, 1>>, <<1, 4>>, <<1, 2>>, <<3, 4>>}

\* the roots t of the derivative quadratic of y with 0 <= t < 1
RootsBelowOne == {t \in Quarters : DerivativeAt(GivenY, t) = 0}

\* their number, a double root counting twice as in the quadratic formula
RootCount ==
    IF GivenY.a # 0 /\ Discriminant(GivenY) = 0
    THEN 2 * Cardinality(RootsBelowOne)
    ELSE Cardinality(RootsBelowOne)

TheRoot == CHOOSE t \in RootsBelowOne : TRUE

\* the point between p and q at t, times t[2]
Between(p, q, t) ==
    Pt((t[2] - t[1]) * p[1] + t[1] * q[1], (t[2] - t[1]) * p[2] + t[1] * q[2])

Shrunk(p, d) == Pt(p[1] \div d, p[2] \div d)

\* the two halves of the curve at t by de Casteljau's construction
HalvesFrom(curve, t, a1, a2, a3) ==
    <<<<curve[1],
        Shrunk(a1, t[2]),
        Shrunk(Between(a1, a2, t), t[2] * t[2]),
        Shrunk(Between(Between(a1, a2, t), Between(a2, a3, t), t), t[2] * t[2] * t[2])>>,
      <<Shrunk(Between(Between(a1, a2, t), Between(a2, a3, t), t), t[2] * t[2] * t[2]),
        Shrunk(Between(a2, a3, t), t[2] * t[2]),
        Shrunk(a3, t[2]),
        curve[4]>>>>

Halves(curve, t) ==
    HalvesFrom(curve, t, Between(curve[1], curve[2], t), Between(curve[2], curve[3], t),
               Between(curve[3], curve[4], t))

CurveUnsplit == pc = "returned" /\ result = Unsplit(givenCurve)

CurveSplitAt(t) == pc = "returned" /\ result = Pieces(Halves(givenCurve, t))

\* C16: splitCurveAtAngle returns (curve, None) when the derivative quadratic
\* has no root t with 0 <= t < 1; with exactly one such root it returns the two
\* halves of the curve given, split at t, when bothDirections is true or the
\* derivative of the rotated x at t is positive, and (curve, None) otherwise.
C16_Branches ==
    (pc # "start") =>
        /\ RootsBelowOne = {} => CurveUnsplit
        /\ Cardinality(RootsBelowOne) = 1 =>
              IF givenBothDirections \/ DerivativeAt(GivenX, TheRoot) > 0
              THEN CurveSplitAt(TheRoot)
              ELSE CurveUnsplit

\* the same with a double root counted as two roots: the branches are as
\* stated for every curve whose single root is a simple one
BranchesForSimpleRoots ==
    (pc # "start") =>
        /\ RootCount = 0 => CurveUnsplit
        /\ RootCount = 1 =>
              IF givenBothDirections \/ DerivativeAt(GivenX, TheRoot) > 0
              THEN CurveSplitAt(TheRoot)
              ELSE CurveUnsplit

\* one root inside the curve, x rising there, bothDirections false: split
SplitInDirection ==
    /\ pc = "returned"
    /\ RootCount = 1
    /\ TheRoot[1] > 0
    /\ ~givenBothDirections
    /\ DerivativeAt(GivenX, TheRoot) > 0
    /\ ~result.none2

\* one root, x falling or standing there, bothDirections false: not split
UnsplitAgainstDirection ==
    /\ pc = "returned"
    /\ RootCount = 1
    /\ ~givenBothDirections
    /\ DerivativeAt(GivenX, TheRoot) <= 0
    /\ result.none2

\* the closed contour of the curve given and the line back to its start
LoopOfGiven ==
    Contour(<<Segment(givenCurve), Line(givenCurve[4], givenCurve[1])>>, TRUE)

EndSidesDisagree ==
    Side1(Segment(givenCurve), splitAngle) # Side2(Segment(givenCurve), splitAngle)

\* C17: when the derivative quadratic has two roots in [0, 1) splitCurveAtAngle
\* fails and returns nothing, and Contour.splitAtAngle fails on a contour that
\* contains such a cubic whose two end sides disagree.
C17_TooComplex ==
    (pc # "start" /\ Cardinality(RootsBelowOne) = 2) =>
        /\ pc = "raised"
        /\ result = <<>>
        /\ EndSidesDisagree => ContourSplitAtAngle(LoopOfGiven, splitAngle).error

\* two different roots in reach and end sides that disagree
C17_Witness ==
    /\ pc = "raised"
    /\ Cardinality(RootsBelowOne) = 2
    /\ EndSidesDisagree
    /\ ContourSplitAtAngle(LoopOfGiven, splitAngle).error

\* a double root in reach, the only root, makes the call fail as two roots do
DoubleRootFails ==
    /\ pc = "raised"
    /\ Cardinality(RootsBelowOne) = 1
    /\ RootCount = 2

-----------------------------------------------------------------------------
(* horizontalOrderSegment as a call of its own *)

\* one call of horizontalOrderRect: how many times the two segments whose
\* control bounds it is given have been halved, and what it returns
Test(segment1, segment2, halvings) ==
    [halvings |-> halvings,
     ho |-> horizontalOrderRect(SegmentControlBounds(segment1),
                                SegmentControlBounds(segment2))]

\* the first loop over the halves: a test for each pair up to the first
\* decisive one
HalvesTests(pairs, halvings, verdicts) ==
    [k \in 1..(IF \E n \in DOMAIN pairs : verdicts[n] # 0
               THEN SetMin({n \in DOMAIN pairs : verdicts[n] # 0})
               ELSE Len(pairs)) |->
        Test(pairs[k][1], pairs[k][2], halvings)]

RECURSIVE Tests(_, _, _, _)
RECURSIVE OverlapsTests(_, _, _, _)

\* the second loop: the calls one level down, up to the first decisive one
OverlapsTests(overlaps, k, maxRecursionLevel, halvings) ==
    IF k > Len(overlaps) THEN <<>>
    ELSE IF horizontalOrderSegment(overlaps[k][1], overlaps[k][2], maxRecursionLevel) # 0
    THEN Tests(overlaps[k][1], overlaps[k][2], maxRecursionLevel, halvings)
    ELSE Tests(overlaps[k][1], overlaps[k][2], maxRecursionLevel, halvings)
             \o OverlapsTests(overlaps, k + 1, maxRecursionLevel, halvings)

\* the two loops over the halves
LoopsTests(pairs, maxRecursionLevel, halvings) ==
    HalvesTests(pairs, halvings, RectVerdicts(pairs))
        \o (IF FirstNonZero(RectVerdicts(pairs)) # 0 THEN <<>>
            ELSE OverlapsTests(Overlaps(pairs), 1, maxRecursionLevel - 1, halvings))

\* Tests for a negative maxRecursionLevel of -2 at the least
TestsOneLevelMore(segment1, segment2, maxRecursionLevel, halvings) ==
    IF maxRecursionLevel < -1 THEN <<>>
    ELSE <<Test(segment1, segment2, halvings)>>
             \o (IF Test(segment1, segment2, halvings).ho = 0
                    /\ rectsOverlap(SegmentControlBounds(segment1),
                                    SegmentControlBounds(segment2))
                 THEN LoopsTests(PairSeq(splitAtT(segment1, 1, 2), splitAtT(segment2, 1, 2)),
                                 maxRecursionLevel, halvings + 1)
                 ELSE <<>>)

\* the calls of horizontalOrderRect that horizontalOrderSegment makes, in order
Tests(segment1, segment2, maxRecursionLevel, halvings) ==
    IF maxRecursionLevel < 0 THEN <<>>
    ELSE <<Test(segment1, segment2, halvings)>>
             \o (IF Test(segment1, segment2, halvings).ho = 0
                    /\ rectsOverlap(SegmentControlBounds(segment1),
                                    SegmentControlBounds(segment2))
                 THEN LoopsTests(PairSeq(splitAtT(segment1, 1, 2), splitAtT(segment2, 1, 2)),
                                 maxRecursionLevel, halvings + 1)
                 ELSE <<>>)

HorizontalOrderSegmentCall ==
    /\ pc = "start"
    /\ pc' = "returned"
    /\ result' = horizontalOrderSegment(givenSegments[1], givenSegments[2],
                                        MaxRecursionLevel)
    /\ tested' = Tests(givenSegments[1], givenSegments[2], MaxRecursionLevel, 0)
    /\ UNCHANGED <<givenCurve, givenBothDirections, givenSegments, givenRects,
                   sortVars, splitVars, extrudeVars, penVars, boundsVars>>

\* a point in source units, on a scale that halving a cubic
\* MaxRecursionLevel + 1 times divides without remainder
Scale == 2 ^ (3 * (MaxRecursionLevel + 1))

SP(x, y) == Pt(x * Scale, y * Scale)

\* lines in every direction, an arch and an S
OrderSegments ==
    {Line(SP(0, 0), SP(2, 2)), Line(SP(0, 2), SP(2, 0)), Line(SP(0, 1), SP(2, 0)),
     Line(SP(0, 0), SP(2, 0)), Line(SP(0, 0), SP(0, 2)), Line(SP(1, 0), SP(1, 2)),
     Line(SP(2, 0), SP(2, 2)), Line(SP(1, 1), SP(2, 2)),
     Cubic(SP(0, 0), SP(0, 2), SP(2, 2), SP(2, 0)),
     Cubic(SP(0, 0), SP(2, 0), SP(0, 2), SP(2, 2))}

InitOrderSegment ==
    /\ pc = "start"
    /\ result = <<>>
    /\ givenSegments \in OrderSegments \X OrderSegments
    /\ tested = <<>>
    /\ givenCurve = <<>> /\ givenBothDirections = FALSE /\ givenRects = <<>>
    /\ IdleSort /\ IdleSplit /\ IdleExtrude /\ IdlePen /\ IdleBounds

NextOrderSegment == HorizontalOrderSegmentCall

SpecOrderSegment == InitOrderSegment /\ [][NextOrderSegment]_vars

-----------------------------------------------------------------------------
\* Claims about horizontalOrderSegment

OrderReturned == pc = "returned"

\* the verdict is that of the last test if it is decisive, every test before
\* it being indecisive, and 0 if no test is decisive
VerdictOfTests ==
    /\ \A k \in 1..(Len(tested) - 1) : tested[k].ho = 0
    /\ tested # <<>>
    /\ result = Last(tested).ho

\* a call at level n tests its pair and the four pairs of halves, and calls
\* itself at most four times: 5 * (1 + 4 + ... + 4^MaxRecursionLevel) tests
MostTests == 5 * ((4 ^ (MaxRecursionLevel + 1) - 1) \div 3)

\* C18, as stated: no sub-segment whose bounding box is tested is shorter than
\* 1/16 of the segment passed in, that is, has been halved more than 4 times.
C18_DepthAsStated ==
    OrderReturned =>
        /\ \A k \in DOMAIN tested : tested[k].halvings <= MaxRecursionLevel
        /\ VerdictOfTests

\* C18: horizontalOrderSegment returns after a bounded number of tests, no
\* sub-segment whose bounding box is tested has been halved more than
\* MaxRecursionLevel + 1 = 5 times (1/32 of the segment passed in), and the
\* result is 0 when no test down to that depth is decisive.
C18_Depth ==
    OrderReturned =>
        /\ \A k \in DOMAIN tested : tested[k].halvings <= MaxRecursionLevel + 1
        /\ Len(tested) <= MostTests
        /\ VerdictOfTests

\* boxes of 1/32 of the segments were tested and nothing was decisive
C18_Witness ==
    /\ OrderReturned
    /\ \E k \in DOMAIN tested : tested[k].halvings = MaxRecursionLevel + 1
    /\ result = 0

-----------------------------------------------------------------------------
(* horizontalOrderRect as a call of its own *)

\* the largest coordinate of a box
MaxRectCoordinate == 2

\* BoundingBox values: xMin <= xMax and yMin <= yMax, as calcBounds gives them
Rects ==
    {[xMin |-> x[1], yMin |-> y[1], xMax |-> x[2], yMax |-> y[2]] :
        x \in {s \in (0..MaxRectCoordinate) \X (0..MaxRectCoordinate) : s[1] <= s[2]},
        y \in {s \in (0..MaxRectCoordinate) \X (0..MaxRectCoordinate) : s[1] <= s[2]}}

HorizontalOrderRectCall ==
    /\ pc = "start"
    /\ pc' = "returned"
    /\ result' = horizontalOrderRect(givenRects[1], givenRects[2])
    /\ UNCHANGED <<sortVars, splitVars, extrudeVars, penVars, boundsVars, argVars>>

InitOrderRect ==
    /\ pc = "start"
    /\ result = <<>>
    /\ givenRects \in Rects \X Rects
    /\ givenCurve = <<>> /\ givenBothDirections = FALSE
    /\ IdleSegments
    /\ IdleSort /\ IdleSplit /\ IdleExtrude /\ IdlePen /\ IdleBounds

NextOrderRect == HorizontalOrderRectCall

SpecOrderRect == InitOrderRect /\ [][NextOrderRect]_vars

\* the two boxes share a stretch of y of positive height
OverlapVertically ==
    \E y \in 0..(MaxRectCoordinate - 1) :
        /\ givenRects[1].yMin <= y /\ y + 1 <= givenRects[1].yMax
        /\ givenRects[2].yMin <= y /\ y + 1 <= givenRects[2].yMax

FirstLeft == givenRects[1].xMax <= givenRects[2].xMin

FirstRight == givenRects[1].xMin >= givenRects[2].xMax

\* C19, as stated: -1 when the boxes overlap vertically and r1.xMax <= r2.xMin,
\* +1 when they overlap vertically and r1.xMin >= r2.xMax, 0 in every other case.
C19_VerdictAsStated ==
    (pc = "returned") =>
        /\ (OverlapVertically /\ FirstLeft) => result = -1
        /\ (OverlapVertically /\ FirstRight) => result = 1
        /\ ~(OverlapVertically /\ (FirstLeft \/ FirstRight)) => result = 0

\* C19: horizontalOrderRect(r1, r2) returns -1 when the boxes overlap
\* vertically and r1.xMax <= r2.xMin, +1 when they overlap vertically,
\* r1.xMin >= r2.xMax and not r1.xMax <= r2.xMin, and 0 in every other case,
\* in particular whenever the boxes do not overlap vertically.
C19_Verdict ==
    (pc = "returned") =>
        /\ (OverlapVertically /\ FirstLeft) => result = -1
        /\ (OverlapVertically /\ FirstRight /\ ~FirstLeft) => result = 1
        /\ ~(OverlapVertically /\ (FirstLeft \/ FirstRight)) => result = 0

\* two boxes without width at the same x: both comparisons hold, the verdict is -1
C19_Witness ==
    /\ pc = "returned"
    /\ OverlapVertically
    /\ FirstLeft
    /\ FirstRight
    /\ result = -1

\* disjoint spans without vertical overlap: 0
UndecidedWithoutOverlap ==
    /\ pc = "returned"
    /\ ~OverlapVertically
    /\ givenRects[1].xMax < givenRects[2].xMin
    /\ result = 0

-----------------------------------------------------------------------------
\* Claims about topologicalSort

\* the nodes not yet emitted all of whose dependencies have been emitted
Ready ==
    {i \in DOMAIN deps : /\ i \notin Range(sortedIndices)
                         /\ deps[i] \subseteq Range(sortedIndices)}

\* the nodes of S in ascending order
RECURSIVE Ascending(_)
Ascending(S) ==
    IF S = {} THEN <<>>
    ELSE <<CHOOSE i \in S : \A j \in S : i <= j>>
             \o Ascending(S \ {CHOOSE i \in S : \A j \in S : i <= j})

NoVerdict == \A i \in DOMAIN deps : deps[i] = {}

\* C20: each batch topologicalSort emits is exactly the set of nodes not yet
\* emitted all of whose dependencies were emitted in earlier batches, in
\* ascending index order, the loop ending only when that set is empty; and
\* when every pairwise verdict is 0 sortContours returns the contours in
\* their input order.
C20_Batches ==
    [][/\ (pc = "topo" /\ pc' = "topo")
            => (Ready # {} /\ sortedIndices' = sortedIndices \o Ascending(Ready))
       /\ (pc = "topo" /\ pc' # "topo") => Ready = {}
       /\ (pc' = "returned" /\ NoVerdict) => result' = contours]_vars

\* three contours came back in two or more batches, not in input order
C20_Witness ==
    /\ pc = "returned"
    /\ Len(contours) = 3
    /\ ~NoVerdict
    /\ \E i \in DOMAIN deps : deps[i] = {} /\ i # sortedIndices[1]
    /\ sortedIndices # <<0, 1, 2>>

\* without any verdict three contours come back as they were given
InputOrderKept ==
    /\ pc = "returned"
    /\ Len(contours) = 3
    /\ NoVerdict
    /\ sortedIndices = <<0, 1, 2>>
    /\ result = contours

-----------------------------------------------------------------------------
(* The wraparound join of Contour.splitAtAngle *)

\* the groups a side had accumulated when the loop ended, as contours
Accumulated(k) == [g \in DOMAIN sides[k] |-> Contour(sides[k][g], FALSE)]

\* the end point of the last group and the start point of the first group
SeamEnd(k) == Last(Last(Last(sides[k])).points)
SeamStart(k) == sides[k][1][1].points[1]

\* the two points differ by at most 1e-5 source units in each coordinate
WithinTolerance(p, q) ==
    /\ Abs(p[1] - q[1]) * 100000 <= Unit
    /\ Abs(p[2] - q[2]) * 100000 <= Unit

Larger(a, b) == IF a > b THEN a ELSE b

\* the two points differ in each coordinate by at most 1e-5 source units or by
\* at most 1e-9 times the larger magnitude of the two coordinates
WithinEitherTolerance(p, q) ==
    \A c \in {1, 2} :
        \/ Abs(p[c] - q[c]) * 100000 <= Unit
        \/ Abs(p[c] - q[c]) <= Larger(Abs(p[c]), Abs(q[c])) \div 1000000000

\* one contour of the last group's segments followed by the first group's,
\* then the groups between the two, in order
Joined(k) ==
    <<Contour(Last(sides[k]) \o sides[k][1], FALSE)>>
        \o SubSeq(Accumulated(k), 2, Len(sides[k]) - 1)

\* C21 as stated: a side with more than one group whose last group ends within
\* 1e-5 of the start of its first group is returned joined, and every other
\* side is returned as accumulated
C21_JoinAsStated ==
    SplitReturned =>
        \A k \in {1, 2} :
            result[k].contours =
                IF Len(sides[k]) > 1 /\ WithinTolerance(SeamEnd(k), SeamStart(k))
                THEN Joined(k)
                ELSE Accumulated(k)

\* C21: a side with more than one group whose last group ends where its first
\* group starts, within 1e-5 or within 1e-9 times the larger coordinate, is
\* returned with the two joined into one contour, the last group's segments
\* first, and with one contour fewer; every other side is returned as
\* accumulated, in order
C21_Join ==
    SplitReturned =>
        \A k \in {1, 2} :
            result[k].contours =
                IF Len(sides[k]) > 1 /\ WithinEitherTolerance(SeamEnd(k), SeamStart(k))
                THEN Joined(k)
                ELSE Accumulated(k)

\* one side has been joined across the seam and the other, which also had
\* more than one group, has been returned as accumulated
C21_Witness ==
    /\ SplitReturned
    /\ \E k \in {1, 2} :
          /\ Len(sides[k]) > 1
          /\ Len(result[k].contours) = Len(sides[k]) - 1
          /\ result[k].contours[1].segments = Last(sides[k]) \o sides[k][1]
    /\ \E k \in {1, 2} :
          /\ Len(sides[k]) > 1
          /\ result[k].contours = Accumulated(k)

\* a side is returned joined although the two points are 1/64 unit apart
JoinedAcrossGap ==
    /\ SplitReturned
    /\ \E k \in {1, 2} :
          /\ Len(sides[k]) > 1
          /\ ~WithinTolerance(SeamEnd(k), SeamStart(k))
          /\ result[k].contours = Joined(k)

-----------------------------------------------------------------------------
(* Contour.splitAtSharpCorners on open contours of every turn *)

MaxCornerSegments == 3

\* the deltas of a line: level, a turn below and a turn above the tenth
\* (10 / sqrt(101) < 1 and 10 / sqrt(82) > 1), upright, back, and no length
LineShapes == {<<Pt(10, 0)>>, <<Pt(10, 1)>>, <<Pt(9, 1)>>, <<Pt(0, 5)>>, <<Pt(-10, 0)>>,
               <<Pt(0, 0)>>}

\* the three deltas of a cubic: one that starts on its first point, one that
\* enters level and leaves upright, one that enters a turn below the tenth
CubicShapes == {<<Pt(0, 0), Pt(5, 5), Pt(10, 0)>>,
                <<Pt(10, 0), Pt(5, 5), Pt(0, 5)>>,
                <<Pt(10, 1), Pt(3, 3), Pt(10, 0)>>}

\* the points of a segment that starts at p and goes on by the given deltas
RECURSIVE PointsFrom(_, _)
PointsFrom(p, deltas) ==
    IF deltas = <<>> THEN <<p>>
    ELSE <<p>> \o PointsFrom(Pt(p[1] + Head(deltas)[1], p[2] + Head(deltas)[2]),
                             Tail(deltas))

\* the segments of the given shapes, each starting where the one before ends
RECURSIVE ChainFrom(_, _)
ChainFrom(p, shapes) ==
    IF shapes = <<>> THEN <<>>
    ELSE <<Segment(PointsFrom(p, Head(shapes)))>>
             \o ChainFrom(Last(PointsFrom(p, Head(shapes))), Tail(shapes))

CornerContours ==
    {Contour(ChainFrom(Pt(0, 0), shapes), FALSE) :
        shapes \in SeqsUpTo(LineShapes \cup CubicShapes, MaxCornerSegments)}

InitCorners ==
    /\ pc = "start"
    /\ result = <<>>
    /\ method = "Contour.splitAtSharpCorners"
    /\ self \in {WithIdentity(contour, 1) : contour \in CornerContours}
    /\ splitAngle = 0
    /\ sides = <<>> /\ previousSide = -1 /\ segmentIndex = 0
    /\ IdleSort /\ IdleExtrude /\ IdlePen /\ IdleBounds /\ IdleArgs

NextCorners == ContourSplitAtSharpCornersCall

SpecCorners == InitCorners /\ [][NextCorners]_vars

\* the tangent a segment is entered with and the one it is left with
EntryTangent(segment) ==
    Pt(segment.points[2][1] - segment.points[1][1],
       segment.points[2][2] - segment.points[1][2])

ExitTangent(segment) ==
    Pt(segment.points[Len(segment.points)][1] - segment.points[Len(segment.points) - 1][1],
       segment.points[Len(segment.points)][2] - segment.points[Len(segment.points) - 1][2])

\* |u x v| / (|u| |v|) > 1/10 for two tangents that have a length; a tangent
\* without length normalizes to (0, 0), and the product is 0
TurnAboveTenth(u, v) ==
    /\ u # Pt(0, 0)
    /\ v # Pt(0, 0)
    /\ 100 * (u[1] * v[2] - u[2] * v[1]) * (u[1] * v[2] - u[2] * v[1])
          > (u[1] * u[1] + u[2] * u[2]) * (v[1] * v[1] + v[2] * v[2])

\* how many segments the first c contours of the returned Path hold
RECURSIVE SegmentsUpTo(_)
SegmentsUpTo(c) ==
    IF c = 0 THEN 0 ELSE SegmentsUpTo(c - 1) + Len(result.contours[c].segments)

\* a returned contour other than the first starts with the k-th segment
StartsContour(k) ==
    \E c \in 1..(Len(result.contours) - 1) : SegmentsUpTo(c) = k - 1

CornersReturned == pc = "returned" /\ method = "Contour.splitAtSharpCorners"

\* C22: splitAtSharpCorners on an open contour returns contours that are
\* open and, put one after the other, are the contour's own segments in their
\* order; a contour starts before a segment exactly when the turn from the
\* exit tangent of the segment before it to its entry tangent is above a tenth
C22_SharpCorners ==
    (CornersReturned /\ ~self.closed) =>
        /\ Concat([c \in DOMAIN result.contours |-> result.contours[c].segments])
              = self.segments
        /\ \A k \in 2..Len(self.segments) :
              StartsContour(k) <=> TurnAboveTenth(ExitTangent(self.segments[k - 1]),
                                                 EntryTangent(self.segments[k]))

\* a contour has been split before one segment and not before another whose
\* turn is just below the tenth, and a tangent without length has started none
C22_Witness ==
    /\ CornersReturned
    /\ Len(self.segments) = 3
    /\ StartsContour(2)
    /\ ~StartsContour(3)
    /\ ExitTangent(self.segments[2]) = Pt(10, 0)
    /\ EntryTangent(self.segments[3]) = Pt(10, 1)

\* a segment that starts on its own first point follows an upright one in the
\* same returned contour
NoTangentNoCorner ==
    /\ CornersReturned
    /\ Len(self.segments) = 2
    /\ ExitTangent(self.segments[1]) = Pt(0, 5)
    /\ EntryTangent(self.segments[2]) = Pt(0, 0)
    /\ Len(result.contours) = 1

-----------------------------------------------------------------------------
(* The groups of Contour.splitAtAngle *)

\* a piece and the side whose list it is put in
Placed(piece, side) == [piece |-> piece, side |-> side]

\* the pieces a segment is processed as: a split cubic gives its first piece
\* on its start side and its second piece on its end side; a line, a cubic
\* whose end sides agree and a cubic whose split gave no second half go to
\* their start side whole
PiecesOf(segment) ==
    IF IsSplit(segment)
    THEN <<Placed(FirstPiece(segment), Side1(segment, splitAngle)),
           Placed(SecondPiece(segment), Side2(segment, splitAngle))>>
    ELSE <<Placed(Segment(segment.points), Side1(segment, splitAngle))>>

\* the pieces of the first n segments in the order they are processed
RECURSIVE PiecesUpTo(_)
PiecesUpTo(n) == IF n = 0 THEN <<>> ELSE PiecesUpTo(n - 1) \o PiecesOf(self.segments[n])

\* the groups of a side: a piece starts a group when the piece before it is
\* on the other side or there is none, and joins the last group otherwise
RECURSIVE Runs(_, _, _)
Runs(side, pieces, n) ==
    IF n = 0 THEN <<>>
    ELSE IF pieces[n].side # side THEN Runs(side, pieces, n - 1)
    ELSE IF n = 1 \/ pieces[n - 1].side # side
         THEN Append(Runs(side, pieces, n - 1), <<pieces[n].piece>>)
         ELSE [Runs(side, pieces, n - 1) EXCEPT
                  ![Len(Runs(side, pieces, n - 1))] = Append(@, pieces[n].piece)]

RunsOf(side, pieces) == Runs(side, pieces, Len(pieces))

InSplitLoop ==
    /\ method = "Contour.splitAtAngle"
    /\ pc \in {"loop", "returned"}
    /\ Len(sides) = 2

\* a cubic whose end sides disagree and whose split gave no second half
WholeAcrossSides(segment) ==
    /\ Len(segment.points) = 4
    /\ Side1(segment, splitAngle) # Side2(segment, splitAngle)
    /\ ~IsSplit(segment)

\* C23: after every turn of the loop of splitAtAngle the groups of each side
\* are the runs of pieces on that side: a group starts exactly when the piece
\* processed just before is on the other side or there is none, and a cubic
\* whose split gave no second half counts whole for its start side, so that
\* a following segment on that side joins its group
C23_GroupsAreRuns ==
    InSplitLoop =>
        \A k \in {1, 2} : sides[k] = RunsOf(k - 1, PiecesUpTo(segmentIndex))

\* the loop has processed a cubic left whole across its sides and then a
\* segment on the cubic's start side, and the two are in one group
C23_Witness ==
    /\ InSplitLoop
    /\ segmentIndex >= 2
    /\ WholeAcrossSides(self.segments[1])
    /\ Side1(self.segments[2], splitAngle) = Side1(self.segments[1], splitAngle)
    /\ SubSeq(sides[Side1(self.segments[1], splitAngle) + 1][1], 1, 2)
          = <<Segment(self.segments[1].points), Segment(self.segments[2].points)>>

-----------------------------------------------------------------------------
(* The continuity of the contours Contour.splitAtAngle returns *)

StartPoint(segment) == segment.points[1]
EndPoint(segment) == segment.points[Len(segment.points)]

\* each segment of the list starts on the end point of the one before
Continuous(segments) ==
    \A j \in 1..(Len(segments) - 1) : StartPoint(segments[j + 1]) = EndPoint(segments[j])

\* side k has been returned with its last group joined to its first, and the
\* j-th segment of its first contour is the last one of that last group
AtJoin(k, c, j) ==
    /\ Len(result[k].contours) < Len(sides[k])
    /\ c = 1
    /\ j = Len(Last(sides[k]))

\* the places where a returned contour goes from one segment to the next:
\* side, contour, segment
Joints ==
    {place \in {1, 2} \X (1..Len(self.segments)) \X (1..(2 * Len(self.segments))) :
        /\ place[2] <= Len(result[place[1]].contours)
        /\ place[3] < Len(result[place[1]].contours[place[2]].segments)}

Before(place) == result[place[1]].contours[place[2]].segments[place[3]]
After(place) == result[place[1]].contours[place[2]].segments[place[3] + 1]

SplitOfContinuous ==
    /\ SplitReturned
    /\ method = "Contour.splitAtAngle"
    /\ self.closed
    /\ Continuous(self.segments)

\* C24 as stated: in the contours returned for a closed continuous contour
\* each segment starts on the end point of the one before, or within 1e-5 of
\* it at a wraparound join
C24_ContinuousAsStated ==
    SplitOfContinuous =>
        \A place \in Joints :
            \/ StartPoint(After(place)) = EndPoint(Before(place))
            \/ /\ AtJoin(place[1], place[2], place[3])
               /\ WithinTolerance(EndPoint(Before(place)), StartPoint(After(place)))

\* C24: in the contours returned for a closed continuous contour each segment
\* starts on the end point of the one before, or, at a wraparound join, within
\* 1e-5 or 1e-9 times the larger coordinate of it
C24_Continuous ==
    SplitOfContinuous =>
        \A place \in Joints :
            \/ StartPoint(After(place)) = EndPoint(Before(place))
            \/ /\ AtJoin(place[1], place[2], place[3])
               /\ WithinEitherTolerance(EndPoint(Before(place)), StartPoint(After(place)))

\* a contour with a split cubic, a cubic left whole across its sides and a
\* line has been split, and a side has been joined across the seam
C24_Witness ==
    /\ SplitOfContinuous
    /\ SplitIndices # {}
    /\ \E i \in DOMAIN self.segments : WholeAcrossSides(self.segments[i])
    /\ \E i \in DOMAIN self.segments : Len(self.segments[i].points) = 2
    /\ \E place \in Joints : AtJoin(place[1], place[2], place[3])

\* a returned contour goes on 1/64 unit beside the end of its segment before
GapAtJoin ==
    /\ SplitOfContinuous
    /\ \E place \in Joints :
          /\ AtJoin(place[1], place[2], place[3])
          /\ StartPoint(After(place)) # EndPoint(Before(place))

-----------------------------------------------------------------------------
(* The symmetry of horizontalOrderRect *)

\* the verdict of the call with the two boxes exchanged
Exchanged == horizontalOrderRect(givenRects[2], givenRects[1])

\* both boxes are without width and at the same x
SameUprightLine ==
    /\ givenRects[1].xMin = givenRects[1].xMax
    /\ givenRects[2].xMin = givenRects[2].xMax
    /\ givenRects[1].xMin = givenRects[2].xMin

\* C25: horizontalOrderRect(a, b) = -horizontalOrderRect(b, a) for all boxes,
\* those without width included
C25_Antisymmetric ==
    (pc = "returned") => result = -Exchanged

\* the verdicts of the two orders are opposite for every pair of boxes but
\* two without width at the same x that overlap vertically
AntisymmetricButForTies ==
    (pc = "returned" /\ ~(SameUprightLine /\ OverlapVertically)) => result = -Exchanged

\* two boxes without width at the same x: -1 in both orders
SameVerdictBothWays ==
    /\ pc = "returned"
    /\ SameUprightLine
    /\ givenRects[1] # givenRects[2]
    /\ result = -1
    /\ Exchanged = -1

-----------------------------------------------------------------------------
(* What sortContours returns and what it leaves alone *)

\* how often a contour is in a list
TimesIn(list, contour) == Cardinality({k \in DOMAIN list : list[k] = contour})

\* the two lists hold the same contours, each as often as the other
SameContours(list1, list2) ==
    /\ Len(list1) = Len(list2)
    /\ \A k \in DOMAIN list1 : TimesIn(list1, list1[k]) = TimesIn(list2, list1[k])

\* C26: no step of sortContours changes the list passed in or a contour in
\* it, and the list returned holds the contours passed in, untransformed,
\* each as often as it was passed in
C26_ReturnsOriginals ==
    [][/\ contours' = contours
       /\ pc' = "returned" => SameContours(result', contours)]_vars

\* contours that a transform changes have been compared, returned in another
\* order than they were given in, and none is returned as its transformed copy
C26_Witness ==
    /\ pc = "returned"
    /\ Len(contours) >= 2
    /\ transform # Identity
    /\ result # contours
    /\ \A k \in DOMAIN contours : ContourTransform(contours[k], transform) # contours[k]
    /\ \A k \in DOMAIN result : \E j \in DOMAIN contours : result[k] = contours[j]

=============================================================================
